---- MODULE Spec2Model ----
(***************************************************************************)
(* Model of the test execution and assertion engine of py-test-framework   *)
(* (src/app/testrunner/executor.py).                                       *)
(*                                                                         *)
(* Representation.  A Python string is a sequence of atoms; an atom stands *)
(* for a maximal run of letters/underscores/digits or for one punctuation  *)
(* character, so "items[0].id" is <<"items","[","0","]",".","id">>.        *)
(* str.split('.'), str.isdigit() and int() are defined on that form.       *)
(* A JSON / Python value is a tagged record [t, v]:                        *)
(*   null  -> [t |-> "null", v |-> <<>>]      (Python None)                 *)
(*   str   -> [t |-> "str",  v |-> atoms]                                   *)
(*   int   -> [t |-> "int",  v |-> n]                                       *)
(*   list  -> [t |-> "list", v |-> sequence of values]                      *)
(*   dict  -> [t |-> "dict", v |-> function from keys (atoms) to values]    *)
(* A Python dict read only through .get (an assertion) is a TLA+ record    *)
(* whose DOMAIN is the set of keys present.                                *)
(***************************************************************************)
EXTENDS Integers, Sequences, FiniteSets, TLC

VARIABLES
    pc,           \* where the executor is: idle, requesting, asserting, done
    test_spec,    \* the TestSpec of the call in progress
    http,         \* what client.request did: pending, responded, raised
    response,     \* the httpx.Response, once there is one
    idx,          \* position of the loop of _run_assertions (1-based)
    results,      \* the list _run_assertions has built so far
    evaluated,    \* number of _run_single_assertion calls of this execution
    result,       \* the TestResultBase returned
    response_time_ms,  \* the round trip as execute_test measures it (line 76)
    req_headers,      \* the headers dict of the call (line 56), as client.request gets it
    req_params,       \* the params dict of the call (line 57)
    req_body,         \* the prepared request body (line 63)
    token_response,  \* what client.post gave _get_oauth2_token, if it was called
    auth_config,  \* self.auth_config of the executor in use
    executors,    \* number of TestExecutor objects constructed so far
    clients,      \* the httpx.Client of each executor, in order: open or closed
    calls,        \* number of execute_test calls made on the executor in use
    token_posts,  \* number of client.post calls of _get_oauth2_token on that executor
    lastExtract,  \* the last direct _extract_json_path call: data, path, outcome
    lastParse,    \* the last parse_curl_command call: command and outcome
    lastConvert,  \* the last curl_to_test_spec call: command, custom assertions, outcome
    test_runs,    \* the committed rows of the table test_runs, in order of creation
    test_results, \* the committed test_results of each run: their test case ids
    tasks,        \* execute_test_run_background of each run: its position and locals
    cancelling    \* the runs a cancel_test_run call has read as running, not yet committed

vars == <<pc, test_spec, http, response, idx, results, evaluated, result,
          response_time_ms, req_headers, req_params, req_body, token_response,
          auth_config, executors, clients, calls, token_posts, lastExtract, lastParse,
          lastConvert, test_runs, test_results, tasks, cancelling>>

\* The request under preparation.
reqVars == <<req_headers, req_params, req_body, token_response>>

\* The executor object: its configuration, its client and the calls made on it.
ownVars == <<auth_config, executors, clients, calls, token_posts>>

\* The records of the direct calls of the pure functions.
pureVars == <<lastExtract, lastParse, lastConvert>>

\* The test runs: the tables and the requests and tasks at work on them.
runVars == <<test_runs, test_results, tasks, cancelling>>

\* ------------------------------------------------------------------ values

None == [t |-> "null", v |-> <<>>]

JStr(atoms) == [t |-> "str", v |-> atoms]

JInt(n) == [t |-> "int", v |-> n]

JList(seq) == [t |-> "list", v |-> seq]

JDict(f) == [t |-> "dict", v |-> f]

\* A one-atom string, e.g. a key: K("items") is the Python string "items".
K(a) == <<a>>

Range(s) == {s[i] : i \in DOMAIN s}

\* Python ==  on JSON values: equal type and equal content, deep on
\* containers.  (None == None is True; "5" == 5 is False.)
RECURSIVE JEq(_, _)
JEq(a, b) ==
    /\ a.t = b.t
    /\ CASE a.t = "null" -> TRUE
         [] a.t = "str"  -> a.v = b.v
         [] a.t = "int"  -> a.v = b.v
         [] a.t = "list" -> /\ Len(a.v) = Len(b.v)
                            /\ \A i \in 1..Len(a.v) : JEq(a.v[i], b.v[i])
         [] a.t = "dict" -> /\ DOMAIN a.v = DOMAIN b.v
                            /\ \A k \in DOMAIN a.v : JEq(a.v[k], b.v[k])

\* Python truthiness of a value (bool(x)).
Truthy(x) ==
    CASE x.t = "null" -> FALSE
      [] x.t = "str"  -> x.v # <<>>
      [] x.t = "int"  -> x.v # 0
      [] x.t = "list" -> x.v # <<>>
      [] x.t = "dict" -> DOMAIN x.v # {}

\* dict.get(key): the value, or None when the key is absent.
DictGet(d, key) == IF key \in DOMAIN d THEN d[key] ELSE None

\* assertion.get(k): the field as a value, None when the key is absent.
Get(assertion, k) == IF k \in DOMAIN assertion THEN assertion[k] ELSE None

\* assertion.get(k, default) for the fields held as plain names (type, matcher).
GetOr(assertion, k, default) == IF k \in DOMAIN assertion THEN assertion[k] ELSE default

\* assertion.get("path") / assertion.get("matcher") as values of a result record.
PathVal(assertion) == IF "path" \in DOMAIN assertion THEN JStr(assertion.path) ELSE None

MatcherVal(assertion) == IF "matcher" \in DOMAIN assertion THEN JStr(K(assertion.matcher)) ELSE None

\* The path as the code tests and walks it: None and "" are both falsy.
PathOf(assertion) == IF "path" \in DOMAIN assertion THEN assertion.path ELSE <<>>

\* ---------------------------------------------------------- string helpers

\* The numerals the model's paths use, with their int() value.
DigitValue == ("0" :> 0) @@ ("1" :> 1) @@ ("2" :> 2) @@ ("5" :> 5)

\* str.isdigit(): non-empty and digits only, i.e. exactly one numeral atom.
IsDigit(key) == Len(key) = 1 /\ key[1] \in DOMAIN DigitValue

ToInt(key) == DigitValue[key[1]]

\* path.split('.'): the pieces between the "." atoms (empty pieces kept).
RECURSIVE SplitDots(_, _, _)
SplitDots(s, i, cur) ==
    IF i > Len(s) THEN <<cur>>
    ELSE IF s[i] = "." THEN <<cur>> \o SplitDots(s, i + 1, <<>>)
    ELSE SplitDots(s, i + 1, Append(cur, s[i]))

Split(path) == SplitDots(path, 1, <<>>)

Space == " "

\* needle in haystack, for two strings.
Contains(needle, hay) ==
    \E i \in 0..(Len(hay) - Len(needle)) :
        \A j \in 1..Len(needle) : hay[i + j] = needle[j]

\* ------------------------------------------------------- path resolution

Returned(v) == [raised |-> FALSE, value |-> v]

Raised == [raised |-> TRUE, value |-> None]

\* The loop of _extract_json_path over keys[i..]: a dict is read with .get
\* (absent key -> None), a list is indexed when the key is a numeral
\* (IndexError when out of range), anything else raises; the walk stops at
\* the first None.
RECURSIVE WalkKeys(_, _, _)
WalkKeys(current, keys, i) ==
    IF i > Len(keys) THEN Returned(current)
    ELSE LET key == keys[i] IN
         IF current.t = "dict"
         THEN LET nxt == DictGet(current.v, key) IN
              IF nxt.t = "null" THEN Returned(None)
              ELSE WalkKeys(nxt, keys, i + 1)
         ELSE IF current.t = "list" /\ IsDigit(key)
         THEN IF ToInt(key) < Len(current.v)
              THEN LET nxt == current.v[ToInt(key) + 1] IN
                   IF nxt.t = "null" THEN Returned(None)
                   ELSE WalkKeys(nxt, keys, i + 1)
              ELSE Raised
         ELSE Raised

\* _extract_json_path(data, path): the value, or ValueError.
ExtractJsonPath(data, path) ==
    IF path = <<>> THEN Returned(data)
    ELSE WalkKeys(data, Split(path), 1)


\* ------------------------------------------------------------ str(), repr()

\* The dict's items in one fixed order (Python keeps insertion order, which
\* the function form of a dict does not carry).
RECURSIVE KeysInOrder(_)
KeysInOrder(S) ==
    IF S = {} THEN <<>>
    ELSE LET k == CHOOSE x \in S : TRUE IN <<k>> \o KeysInOrder(S \ {k})

RECURSIVE PyRepr(_)
RECURSIVE JoinRepr(_, _)
RECURSIVE JoinItems(_, _, _)
JoinRepr(seq, i) ==
    IF i > Len(seq) THEN <<>>
    ELSE (IF i > 1 THEN <<", ">> ELSE <<>>) \o PyRepr(seq[i]) \o JoinRepr(seq, i + 1)

JoinItems(f, keys, i) ==
    IF i > Len(keys) THEN <<>>
    ELSE (IF i > 1 THEN <<", ">> ELSE <<>>)
         \o <<"'">> \o keys[i] \o <<"'", ": ">> \o PyRepr(f[keys[i]])
         \o JoinItems(f, keys, i + 1)

\* repr(v), as str() prints the elements of a container.
PyRepr(v) ==
    CASE v.t = "null" -> <<"None">>
      [] v.t = "str"  -> <<"'">> \o v.v \o <<"'">>
      [] v.t = "int"  -> <<ToString(v.v)>>
      [] v.t = "list" -> <<"[">> \o JoinRepr(v.v, 1) \o <<"]">>
      [] v.t = "dict" -> <<"{">> \o JoinItems(v.v, KeysInOrder(DOMAIN v.v), 1) \o <<"}">>

\* str(v): a string is itself, anything else prints as its repr.
PyStr(v) == IF v.t = "str" THEN v.v ELSE PyRepr(v)

\* ------------------------------------------------------------- re.search

\* The patterns of the model are literals with an optional leading "^" and
\* trailing "$"; a pattern holding an unbalanced "(" does not compile.
RegexCompiles(p) == "(" \notin Range(p)

RegexSearch(p, s) ==
    LET anchoredL == p # <<>> /\ p[1] = "^"
        p1        == IF anchoredL THEN Tail(p) ELSE p
        anchoredR == p1 # <<>> /\ p1[Len(p1)] = "$"
        lit       == IF anchoredR THEN SubSeq(p1, 1, Len(p1) - 1) ELSE p1
    IN  CASE anchoredL /\ anchoredR -> s = lit
          [] anchoredL /\ ~anchoredR ->
                Len(lit) <= Len(s) /\ SubSeq(s, 1, Len(lit)) = lit
          [] ~anchoredL /\ anchoredR ->
                Len(lit) <= Len(s) /\ SubSeq(s, Len(s) - Len(lit) + 1, Len(s)) = lit
          [] OTHER -> Contains(lit, s)

\* ------------------------------------------------------------- response

\* An httpx.Response: status_code, headers, and the body as json() gives it
\* when the text is JSON (is_json), else as text.
ExtractResponseBody(resp) == IF resp.is_json THEN resp.json ELSE JStr(resp.text)

LowerAtom ==
    ("Content" :> "content") @@ ("Type" :> "type") @@ ("X" :> "x") @@ ("API" :> "api")
    @@ ("Key" :> "key") @@ ("Authorization" :> "authorization")
    @@ ("Bearer" :> "bearer") @@ ("OAuth2" :> "oauth2") @@ ("CURL" :> "curl")
    @@ ("Curl" :> "curl") @@ ("Application" :> "application") @@ ("JSON" :> "json")

\* str.lower()
Lower(s) == [i \in DOMAIN s |-> IF s[i] \in DOMAIN LowerAtom THEN LowerAtom[s[i]] ELSE s[i]]

\* response.headers.get(name): httpx matches header names case-insensitively.
HeaderGet(headers, name) ==
    LET hit == {h \in DOMAIN headers : Lower(h) = Lower(name)} IN
    IF hit = {} THEN None ELSE JStr(headers[CHOOSE h \in hit : TRUE])


\* ------------------------------------------------------ assertion results

\* One AssertionResult record.  message is the formatted text as a sequence
\* of fragments: literals (strings) and the values interpolated into it.
Rec(type, path, matcher, expected, actual, passed, message) ==
    [type |-> type, path |-> path, matcher |-> matcher, expected |-> expected,
     actual |-> actual, passed |-> passed, message |-> message]

Lit(text) == JStr(K(text))

\* What a call gives back: a result record, or an exception (its text).
Ok(rec) == [raised |-> FALSE, result |-> rec, error |-> <<>>]

Throw(text) == [raised |-> TRUE, result |-> <<>>, error |-> K(text)]

\* "WARNING" in result["message"]
HasWarning(rec) ==
    \E i \in DOMAIN rec.message :
        rec.message[i].t = "str" /\ "WARNING" \in Range(rec.message[i].v)

\* _assert_status_code
AssertStatusCode(assertion, resp) ==
    LET expected == Get(assertion, "expected")
        actual   == JInt(resp.status_code)
    IN  Ok(Rec("status_code", Lit("status_code"), Lit("equals"), expected, actual,
               JEq(actual, expected),
               <<Lit("Expected status code "), expected, Lit(", got "), actual>>))

\* _assert_header: no try/except of its own, so a TypeError of `in` or of
\* re.search, or an re.error, leaves the function.
AssertHeader(assertion, resp) ==
    LET path     == PathOf(assertion)
        expected == Get(assertion, "expected")
        matcher  == GetOr(assertion, "matcher", "equals")
        mval     == JStr(K(matcher))
        actual   == HeaderGet(resp.headers, path)
        msg      == <<Lit("Header "), JStr(path), Lit(": expected "), expected,
                      Lit(", got "), actual>>
        done(passed) == Ok(Rec("header", JStr(path), mval, expected, actual, passed, msg))
    IN  IF path = <<>>
        THEN Ok(Rec("header", PathVal(assertion), mval, expected, None, FALSE,
                    <<Lit("Header path not specified")>>))
        ELSE CASE matcher = "contains" ->
                    IF ~Truthy(actual) THEN done(FALSE)
                    ELSE IF expected.t # "str" THEN Throw("TypeError")
                    ELSE done(Contains(expected.v, actual.v))
               [] matcher = "regex" ->
                    IF ~Truthy(actual) THEN done(FALSE)
                    ELSE IF expected.t # "str" THEN Throw("TypeError")
                    ELSE IF ~RegexCompiles(expected.v) THEN Throw("re.error")
                    ELSE done(RegexSearch(expected.v, actual.v))
               [] OTHER -> done(JEq(actual, expected))

\* The value an assertion on the body looks at: the parsed body, or the
\* value _extract_json_path finds in it when the assertion has a path.
BodyActual(assertion, resp) ==
    LET body == ExtractResponseBody(resp) IN
    IF PathOf(assertion) # <<>> THEN ExtractJsonPath(body, PathOf(assertion))
    ELSE Returned(body)

\* _assert_body
AssertBody(assertion, resp) ==
    LET path     == PathVal(assertion)
        expected == Get(assertion, "expected")
        matcher  == GetOr(assertion, "matcher", "equals")
        mval     == JStr(K(matcher))
        got      == BodyActual(assertion, resp)
        actual   == got.value
        failed   == Ok(Rec("body", path, mval, expected, None, FALSE,
                           <<Lit("Body assertion failed: "), Lit("error")>>))
        done(passed) == Ok(Rec("body", path, mval, expected, actual, passed,
                               <<Lit("Body assertion: expected "), expected,
                                 Lit(", got "), actual>>))
    IN  IF got.raised THEN failed
        ELSE CASE matcher = "contains" ->
                    IF expected.t # "str" THEN failed
                    ELSE done(Contains(expected.v, PyStr(actual)))
               [] matcher = "regex" ->
                    IF expected.t # "str" \/ ~RegexCompiles(expected.v) THEN failed
                    ELSE done(RegexSearch(expected.v, PyStr(actual)))
               [] OTHER -> done(JEq(actual, expected))

\* jsonschema.validate for the schemas of the model: a dict whose "type"
\* keyword, when present, names the JSON type the instance must have.  A
\* schema that is no dict makes validate raise something else.
SchemaTypeOf(v) ==
    CASE v.t = "null" -> K("null")
      [] v.t = "str"  -> K("string")
      [] v.t = "int"  -> K("integer")
      [] v.t = "list" -> K("array")
      [] v.t = "dict" -> K("object")

\* _assert_schema
AssertSchema(assertion, resp) ==
    LET schema == Get(assertion, "expected")
        body   == ExtractResponseBody(resp)
        rec(actual, passed, msg) ==
            Ok(Rec("schema", None, Lit("schema"), Lit("Valid JSON schema"),
                   actual, passed, msg))
    IN  IF schema.t # "dict"
        THEN rec(None, FALSE, <<Lit("Schema validation failed: "), Lit("error")>>)
        ELSE IF K("type") \in DOMAIN schema.v
                /\ ~JEq(schema.v[K("type")], JStr(SchemaTypeOf(body)))
        THEN rec(Lit("Invalid: "), FALSE,
                 <<Lit("Response body does not match JSON schema: "), Lit("error")>>)
        ELSE rec(Lit("Valid"), TRUE, <<Lit("Response body matches JSON schema")>>)

\* _assert_contains  (the [:100] cut of the reported actual is not modelled:
\* every str(actual) of the model is shorter)
AssertContains(assertion, resp) ==
    LET path     == PathVal(assertion)
        expected == Get(assertion, "expected")
        got      == BodyActual(assertion, resp)
    IN  IF got.raised \/ expected.t # "str"
        THEN Ok(Rec("contains", path, Lit("contains"), expected, None, FALSE,
                    <<Lit("Contains assertion failed: "), Lit("error")>>))
        ELSE Ok(Rec("contains", path, Lit("contains"), expected, JStr(PyStr(got.value)),
                    Contains(expected.v, PyStr(got.value)),
                    <<Lit("Expected to find '"), expected, Lit("' in response")>>))

\* _assert_equals
AssertEquals(assertion, resp) ==
    LET path     == PathVal(assertion)
        expected == Get(assertion, "expected")
        got      == BodyActual(assertion, resp)
    IN  IF got.raised
        THEN Ok(Rec("equals", path, Lit("equals"), expected, None, FALSE,
                    <<Lit("Equals assertion failed: "), Lit("Failed to extract path")>>))
        ELSE Ok(Rec("equals", path, Lit("equals"), expected, got.value,
                    JEq(got.value, expected),
                    <<Lit("Expected "), expected, Lit(", got "), got.value>>))

\* _assert_regex
AssertRegex(assertion, resp) ==
    LET path    == PathVal(assertion)
        pattern == Get(assertion, "expected")
        got     == BodyActual(assertion, resp)
    IN  IF got.raised \/ pattern.t # "str" \/ ~RegexCompiles(pattern.v)
        THEN Ok(Rec("regex", path, Lit("regex"), pattern, None, FALSE,
                    <<Lit("Regex assertion failed: "), Lit("error")>>))
        ELSE Ok(Rec("regex", path, Lit("regex"), pattern, JStr(PyStr(got.value)),
                    RegexSearch(pattern.v, PyStr(got.value)),
                    <<Lit("Expected response to match regex pattern: "), pattern>>))

\* Mutant: the else branch raises instead of returning a failed record.
RunSingleAssertion_UnknownRaises(assertion, resp) ==
    LET assertion_type == GetOr(assertion, "type", "unknown") IN
    CASE assertion_type = "status_code" -> AssertStatusCode(assertion, resp)
      [] assertion_type = "header"      -> AssertHeader(assertion, resp)
      [] assertion_type = "body"        -> AssertBody(assertion, resp)
      [] assertion_type = "schema"      -> AssertSchema(assertion, resp)
      [] assertion_type = "contains"    -> AssertContains(assertion, resp)
      [] assertion_type = "equals"      -> AssertEquals(assertion, resp)
      [] assertion_type = "regex"       -> AssertRegex(assertion, resp)
      [] OTHER -> Throw("Unknown assertion type")

\* _run_single_assertion: dispatch on the type; every other type, and a
\* missing one ("unknown"), is reported as unknown.
RunSingleAssertion(assertion, resp) ==
    LET assertion_type == GetOr(assertion, "type", "unknown") IN
    CASE assertion_type = "status_code" -> AssertStatusCode(assertion, resp)
      [] assertion_type = "header"      -> AssertHeader(assertion, resp)
      [] assertion_type = "body"        -> AssertBody(assertion, resp)
      [] assertion_type = "schema"      -> AssertSchema(assertion, resp)
      [] assertion_type = "contains"    -> AssertContains(assertion, resp)
      [] assertion_type = "equals"      -> AssertEquals(assertion, resp)
      [] assertion_type = "regex"       -> AssertRegex(assertion, resp)
      [] OTHER ->
            Ok(Rec(assertion_type, PathVal(assertion), MatcherVal(assertion),
                   Get(assertion, "expected"), None, FALSE,
                   <<Lit("Unknown assertion type: "), Lit(assertion_type)>>))

\* The record _run_assertions appends when _run_single_assertion raised.
ExecutionFailed(assertion, error) ==
    Rec(GetOr(assertion, "type", "unknown"), PathVal(assertion), MatcherVal(assertion),
        Get(assertion, "expected"), None, FALSE,
        <<Lit("Assertion execution failed: "), JStr(error)>>)

\* Mutant: the loop without its try/except, so an assertion that raises
\* takes the whole run down.
RunAssertionsStep_NoCatch(assertion, resp) == RunSingleAssertion(assertion, resp)

\* One iteration of the loop of _run_assertions: the record to append for
\* `assertion`, from the call or, when it raised, from the except branch.
RunAssertionsStep(assertion, resp) ==
    LET r == RunSingleAssertion(assertion, resp) IN
    IF r.raised THEN Ok(ExecutionFailed(assertion, r.error)) ELSE r


\* ------------------------------------------------------------ test result

\* Mutant: any() in place of all().
StatusOf_Any(assertion_results) ==
    IF \E i \in DOMAIN assertion_results : assertion_results[i].passed
    THEN "passed" ELSE "failed"

\* status, line 82: all(ar.get("passed", False) for ar in assertion_results)
StatusOf(assertion_results) ==
    IF \A i \in DOMAIN assertion_results : assertion_results[i].passed
    THEN "passed" ELSE "failed"

\* response_data of a successful execution (the url is not modelled).
ResponseData(spec, resp) ==
    [t |-> "dict",
     v |-> [status_code |-> resp.status_code, headers |-> resp.headers,
            body |-> ExtractResponseBody(resp), method |-> spec.method]]

\* The TestResultBase of lines 93-99.
TestCompleted(spec, resp, assertion_results) ==
    [test_name |-> spec.name, status |-> StatusOf(assertion_results),
     error_message |-> None, response_data |-> ResponseData(spec, resp),
     assertion_results |-> assertion_results]

\* Mutant: the except branch drops the error text.
TestErrored_NoMessage(spec, error) ==
    [test_name |-> spec.name, status |-> "failed",
     error_message |-> None, response_data |-> None,
     assertion_results |-> <<>>]

\* The TestResultBase of the except branch, lines 106-112; error is str(e).
TestErrored(spec, error) ==
    [test_name |-> spec.name, status |-> "failed",
     error_message |-> JStr(error), response_data |-> None,
     assertion_results |-> <<>>]


\* ------------------------------------------------------ request preparation

\* `d or {}` for an Optional[Dict]: the dict itself when it is non-empty (the
\* same object, so writes to it are writes to the spec), else a new dict.
OrEmpty(d) == IF Truthy(d) THEN d.v ELSE <<>>

\* d[k] = v
SetItem(d, k, v) == [x \in DOMAIN d \cup {k} |-> IF x = k THEN v ELSE d[x]]

HeadersAndParams(h, p) == [headers |-> h, params |-> p]

AuthorizationKey == K("Authorization")

\* self.auth_config.get("type", "").lower()
AuthType(cfg) == IF "type" \in DOMAIN cfg THEN Lower(cfg.type) ELSE <<>>

\* f"Bearer {token}"
BearerValue(token) == JStr(<<"Bearer", " ">> \o PyStr(token))

\* base64.b64encode(credentials.encode()).decode(), kept symbolic.
B64(text) == <<"b64", "(">> \o text \o <<")">>

\* _apply_bearer_auth
ApplyBearerAuth(cfg, h, p) ==
    LET token == Get(cfg, "token") IN
    IF Truthy(token)
    THEN HeadersAndParams(SetItem(h, AuthorizationKey, BearerValue(token)), p)
    ELSE HeadersAndParams(h, p)

\* header_key_names of _apply_api_key_auth
HeaderKeyNames ==
    {<<"x", "-", "api", "-", "key">>, <<"api", "-", "key">>, <<"authorization">>,
     <<"x", "-", "auth", "-", "token">>}

\* Mutant: the key name is compared as written, without lower().
ApplyApiKeyAuth_CaseSensitive(cfg, h, p) ==
    LET key_name  == Get(cfg, "key_name")
        key_value == Get(cfg, "key_value")
    IN  IF Truthy(key_name) /\ Truthy(key_value)
        THEN IF key_name.v \in HeaderKeyNames
             THEN HeadersAndParams(SetItem(h, key_name.v, key_value), p)
             ELSE HeadersAndParams(h, SetItem(p, key_name.v, key_value))
        ELSE HeadersAndParams(h, p)

\* _apply_api_key_auth
ApplyApiKeyAuth(cfg, h, p) ==
    LET key_name  == Get(cfg, "key_name")
        key_value == Get(cfg, "key_value")
    IN  IF Truthy(key_name) /\ Truthy(key_value)
        THEN IF Lower(key_name.v) \in {Lower(name) : name \in HeaderKeyNames}
             THEN HeadersAndParams(SetItem(h, key_name.v, key_value), p)
             ELSE HeadersAndParams(h, SetItem(p, key_name.v, key_value))
        ELSE HeadersAndParams(h, p)

\* _apply_basic_auth
ApplyBasicAuth(cfg, h, p) ==
    LET username == Get(cfg, "username")
        password == Get(cfg, "password")
    IN  IF Truthy(username) /\ Truthy(password)
        THEN HeadersAndParams(
                 SetItem(h, AuthorizationKey,
                         JStr(<<"Basic", " ">> \o B64(username.v \o <<":">> \o password.v))),
                 p)
        ELSE HeadersAndParams(h, p)

\* What client.post gave: an exception, or a response with its status code
\* and its body as response.json() reads it.
NoTokenCall ==
    [called |-> FALSE, raised |-> FALSE, status_code |-> 0, is_json |-> FALSE, json |-> None]

TokenPostRaised ==
    [called |-> TRUE, raised |-> TRUE, status_code |-> 0, is_json |-> FALSE, json |-> None]

TokenPostReturned(code, is_json, json) ==
    [called |-> TRUE, raised |-> FALSE, status_code |-> code, is_json |-> is_json,
     json |-> json]

\* all([client_id, client_secret, token_url]) of _get_oauth2_token
HasClientCredentials(cfg) ==
    /\ Truthy(Get(cfg, "client_id"))
    /\ Truthy(Get(cfg, "client_secret"))
    /\ Truthy(Get(cfg, "token_url"))

\* Mutant: the token is fetched even when the config holds one.
NeedsTokenRequest_EvenWithToken(cfg) ==
    /\ DOMAIN cfg # {}
    /\ AuthType(cfg) = K("oauth2")
    /\ HasClientCredentials(cfg)

\* _apply_oauth2_auth reaches client.post: no token in the config, and the
\* credentials and the token URL are there.
NeedsTokenRequest(cfg) ==
    /\ DOMAIN cfg # {}
    /\ AuthType(cfg) = K("oauth2")
    /\ ~Truthy(Get(cfg, "token"))
    /\ HasClientCredentials(cfg)

\* Mutant: _get_oauth2_token without its try/except.
GetOAuth2Token_NoCatch(cfg, post) ==
    IF ~HasClientCredentials(cfg) THEN Returned(None)
    ELSE IF post.raised THEN Raised
    ELSE IF post.status_code = 200
         THEN IF ~post.is_json \/ post.json.t # "dict" THEN Raised
              ELSE Returned(DictGet(post.json.v, K("access_token")))
         ELSE Returned(None)

\* _get_oauth2_token, given what client.post did (post is read only when the
\* credentials are complete): the access_token of a 200 JSON object, else
\* None; every exception (of the post, of response.json(), of .get on a
\* body that is no object) is caught and gives None.
GetOAuth2Token(cfg, post) ==
    IF ~HasClientCredentials(cfg) THEN Returned(None)
    ELSE IF post.raised THEN Returned(None)
    ELSE IF post.status_code = 200
         THEN IF ~post.is_json \/ post.json.t # "dict" THEN Returned(None)
              ELSE Returned(DictGet(post.json.v, K("access_token")))
         ELSE Returned(None)

\* _apply_oauth2_auth, fetched being what _get_oauth2_token returned.
ApplyOAuth2Auth(cfg, h, p, fetched) ==
    LET configured == Get(cfg, "token")
        token      == IF Truthy(configured) THEN configured ELSE fetched
    IN  IF Truthy(token)
        THEN HeadersAndParams(SetItem(h, AuthorizationKey, BearerValue(token)), p)
        ELSE HeadersAndParams(h, p)

\* _apply_authentication
ApplyAuthentication(cfg, h, p, fetched) ==
    IF DOMAIN cfg = {} THEN HeadersAndParams(h, p)
    ELSE LET auth_type == AuthType(cfg) IN
         CASE auth_type = K("bearer")  -> ApplyBearerAuth(cfg, h, p)
           [] auth_type = <<"api_key">> -> ApplyApiKeyAuth(cfg, h, p)
           [] auth_type = K("basic")   -> ApplyBasicAuth(cfg, h, p)
           [] auth_type = K("oauth2")  -> ApplyOAuth2Auth(cfg, h, p, fetched)
           [] OTHER -> HeadersAndParams(h, p)

\* The JSON text of v, the separators followed by sp: json.dumps writes
\* ", " and ": ", a compact document "," and ":".
RECURSIVE JsonText(_, _)
RECURSIVE DumpList(_, _, _)
RECURSIVE DumpItems(_, _, _, _)
DumpList(seq, i, sp) ==
    IF i > Len(seq) THEN <<>>
    ELSE (IF i > 1 THEN <<",">> \o sp ELSE <<>>) \o JsonText(seq[i], sp)
         \o DumpList(seq, i + 1, sp)

DumpItems(f, keys, i, sp) ==
    IF i > Len(keys) THEN <<>>
    ELSE (IF i > 1 THEN <<",">> \o sp ELSE <<>>)
         \o <<"\"">> \o keys[i] \o <<"\"", ":">> \o sp \o JsonText(f[keys[i]], sp)
         \o DumpItems(f, keys, i + 1, sp)

JsonText(v, sp) ==
    CASE v.t = "null" -> <<"null">>
      [] v.t = "str"  -> <<"\"">> \o v.v \o <<"\"">>
      [] v.t = "int"  -> <<ToString(v.v)>>
      [] v.t = "list" -> <<"[">> \o DumpList(v.v, 1, sp) \o <<"]">>
      [] v.t = "dict" -> <<"{">> \o DumpItems(v.v, KeysInOrder(DOMAIN v.v), 1, sp) \o <<"}">>

\* json.dumps(v)
JsonDumps(v) == JsonText(v, <<Space>>)

\* The JSON documents of the model.
JsonDocuments == <<JDict(K("a") :> JInt(1)), JDict(K("name") :> JStr(K("John"))), JInt(1)>>

\* json.loads(text) does not raise: the text is a JSON document, spaced as
\* json.dumps writes it or compact.
ParsesAsJson(text) ==
    \E i \in DOMAIN JsonDocuments :
        text \in {JsonDumps(JsonDocuments[i]), JsonText(JsonDocuments[i], <<>>)}

\* _prepare_body
PrepareBody(spec) ==
    IF ~Truthy(spec.body) THEN None
    ELSE IF spec.body.t = "str" THEN spec.body
    ELSE IF spec.body.t = "dict" THEN JStr(JsonDumps(spec.body))
    ELSE JStr(PyStr(spec.body))

ContentTypeKey == <<"content", "-", "type">>

\* _make_request, lines 156-161: the default content type, looked up and
\* set under the key 'content-type' of the headers dict.
DefaultContentType(h, b) ==
    IF Truthy(b) /\ b.t = "str" /\ ~Truthy(DictGet(h, ContentTypeKey))
       /\ ParsesAsJson(b.v)
    THEN SetItem(h, ContentTypeKey, JStr(<<"application", "/", "json">>))
    ELSE h

\* The spec after the call wrote h and p: headers and params are the spec's
\* own dicts whenever those are non-empty (`or` returns its left operand).
WrittenThrough(spec, h, p) ==
    [spec EXCEPT !.headers = IF Truthy(@) THEN JDict(h) ELSE @,
                 !.query_params = IF Truthy(@) THEN JDict(p) ELSE @]

\* -------------------------------------------------------------- curl parser
\* A curl command is a string, hence a sequence of atoms: "-X" is
\* <<"-", "X">>, a space, a newline, a quote and a backslash are atoms of
\* their own.  A token is the sequence of the atoms it is made of.  Commands
\* in which removing a backslash would join two runs of letters are left out.

Newline == "\n"

Backslash == "\\"

QuoteChars == {"'", "\""}

\* str.isspace() on one character
IsSpace(c) == c \in {Space, Newline}

\* curl_cmd.replace('\\\n', ' '): a backslash-newline becomes a space.
RECURSIVE ReplaceContinuations(_, _)
ReplaceContinuations(cmd, i) ==
    IF i > Len(cmd) THEN <<>>
    ELSE IF cmd[i] = Backslash /\ i < Len(cmd) /\ cmd[i + 1] = Newline
    THEN <<Space>> \o ReplaceContinuations(cmd, i + 2)
    ELSE <<cmd[i]>> \o ReplaceContinuations(cmd, i + 1)

\* .replace('\\', ''): every backslash left is removed.
RemoveBackslashes(cmd) == SelectSeq(cmd, LAMBDA c : c # Backslash)

\* ' '.join(command.split()): whitespace runs become one space, those at the
\* ends go (inside quotes as well as outside).
RECURSIVE CollapseWhitespace(_, _, _)
CollapseWhitespace(cmd, i, out) ==
    IF i > Len(cmd) THEN out
    ELSE IF IsSpace(cmd[i])
    THEN CollapseWhitespace(cmd, i + 1, out)
    ELSE CollapseWhitespace(cmd, i + 1,
             IF out # <<>> /\ i > 1 /\ IsSpace(cmd[i - 1])
             THEN out \o <<Space, cmd[i]>> ELSE Append(out, cmd[i]))

\* Lines 89-90.
Normalize(curl_cmd) ==
    CollapseWhitespace(RemoveBackslashes(ReplaceContinuations(curl_cmd, 1)), 1, <<>>)

\* The scanner of lines 93-119: st holds tokens, current_token and
\* quote_char ("" when not in quotes).
RECURSIVE Scan(_, _, _)
Scan(command, i, st) ==
    IF i > Len(command)
    THEN IF st.current # <<>> THEN Append(st.tokens, st.current) ELSE st.tokens
    ELSE LET char == command[i] IN
         Scan(command, i + 1,
              IF char \in QuoteChars /\ st.quote = ""
              THEN [st EXCEPT !.quote = char, !.current = Append(@, char)]
              ELSE IF st.quote # "" /\ char = st.quote
              THEN [tokens |-> Append(st.tokens, Append(st.current, char)),
                    current |-> <<>>, quote |-> ""]
              ELSE IF st.quote # ""
              THEN [st EXCEPT !.current = Append(@, char)]
              ELSE IF IsSpace(char)
              THEN IF st.current # <<>>
                   THEN [st EXCEPT !.tokens = Append(@, st.current), !.current = <<>>]
                   ELSE st
              ELSE [st EXCEPT !.current = Append(@, char)])

Tokenize(command) == Scan(command, 1, [tokens |-> <<>>, current |-> <<>>, quote |-> ""])

\* token.strip("'\""): the quote characters at both ends are removed.
RECURSIVE StripLeft(_, _)
StripLeft(tok, chars) ==
    IF tok # <<>> /\ tok[1] \in chars THEN StripLeft(Tail(tok), chars) ELSE tok

RECURSIVE StripRight(_, _)
StripRight(tok, chars) ==
    IF tok # <<>> /\ tok[Len(tok)] \in chars
    THEN StripRight(SubSeq(tok, 1, Len(tok) - 1), chars) ELSE tok

Strip(tok, chars) == StripRight(StripLeft(tok, chars), chars)

StripQuotes(tok) == Strip(tok, QuoteChars)

\* token.startswith('-')
StartsWithDash(tok) == tok # <<>> /\ tok[1] = "-"

\* A one-letter option and a long option, as strings.
Short(letter) == <<"-", letter>>

Long(name) == <<"-", "-">> \o name

\* The first index of atom c in tok, 0 when there is none.
IndexOf(tok, c) ==
    IF c \in Range(tok) THEN CHOOSE i \in DOMAIN tok : tok[i] = c /\ \A j \in 1..(i - 1) : tok[j] # c
    ELSE 0

UpperAtom ==
    ("get" :> "GET") @@ ("post" :> "POST") @@ ("put" :> "PUT") @@ ("d" :> "D")
    @@ ("a" :> "A") @@ ("http" :> "HTTP") @@ ("data" :> "DATA") @@ ("raw" :> "RAW")
    @@ ("binary" :> "BINARY") @@ ("form" :> "FORM") @@ ("request" :> "REQUEST")

\* str.upper()
Upper(s) == [i \in DOMAIN s |-> IF s[i] \in DOMAIN UpperAtom THEN UpperAtom[s[i]] ELSE s[i]]

MethodGET == K("GET")

MethodPOST == K("POST")

\* The flags that carry the body.
DataFlags ==
    {Long(K("data")), Long(<<"data", "-", "raw">>), Long(<<"data", "-", "binary">>),
     Short("d")}

\* Mutant: a body flag leaves the method alone.
UpgradeMethod_Never(method) == method

\* Lines 159-160 and 169-170: if method == 'GET': method = 'POST'.
UpgradeMethod(method) == IF method = MethodGET THEN MethodPOST ELSE method

\* Mutant: the loop stops at the url.
AfterUrl_Stop(tokens, i) == Len(tokens) + 1

\* Lines 174-178: the url found, the loop goes on with the next token.
AfterUrl(tokens, i) == i + 1

\* The while loop of lines 132-178 from token i on (1-based; tokens[1] is
\* curl); st holds method, url, headers and body.
RECURSIVE WalkTokens(_, _, _)
WalkTokens(tokens, i, st) ==
    IF i > Len(tokens) THEN st
    ELSE LET token    == StripQuotes(tokens[i])
             has_next == i + 1 <= Len(tokens)
             arg      == IF has_next THEN StripQuotes(tokens[i + 1]) ELSE <<>>
         IN  IF token \in {Short("X"), Long(K("request"))}
             THEN IF has_next
                  THEN WalkTokens(tokens, i + 2, [st EXCEPT !.method = arg])
                  ELSE WalkTokens(tokens, i + 1, st)
             ELSE IF token \in {Short("H"), Long(K("header"))}
             THEN IF has_next
                  THEN WalkTokens(tokens, i + 2,
                          IF ":" \in Range(arg)
                          THEN LET c == IndexOf(arg, ":") IN
                               [st EXCEPT !.headers =
                                   SetItem(@, Strip(SubSeq(arg, 1, c - 1), {Space}),
                                           Strip(SubSeq(arg, c + 1, Len(arg)), {Space}))]
                          ELSE st)
                  ELSE WalkTokens(tokens, i + 1, st)
             ELSE IF token \in DataFlags
             THEN IF has_next
                  THEN WalkTokens(tokens, i + 2,
                          [st EXCEPT !.body = @ \o arg, !.method = UpgradeMethod(@)])
                  ELSE WalkTokens(tokens, i + 1, st)
             ELSE IF token \in {Long(K("form")), Short("F")}
             THEN IF has_next
                  THEN WalkTokens(tokens, i + 2,
                          IF "=" \in Range(arg)
                          THEN [st EXCEPT !.body = IF @ = <<>> THEN arg ELSE @,
                                          !.method = UpgradeMethod(@)]
                          ELSE st)
                  ELSE WalkTokens(tokens, i + 1, st)
             ELSE IF token = Long(K("location"))
             THEN WalkTokens(tokens, i + 1, st)
             ELSE IF st.url = <<>> /\ ~StartsWithDash(token)
             THEN WalkTokens(tokens, AfterUrl(tokens, i), [st EXCEPT !.url = token])
             ELSE WalkTokens(tokens, i + 1, st)

\* _determine_request_type
DetermineRequestType(hdrs, data) ==
    LET content_type == IF ContentTypeKey \in DOMAIN hdrs THEN Lower(hdrs[ContentTypeKey])
                        ELSE <<>>
    IN  IF Contains(<<"application", "/", "json">>, content_type) THEN "json"
        ELSE IF Contains(<<"application", "/", "x", "-", "www", "-", "form", "-",
                          "urlencoded">>, content_type) THEN "form"
        ELSE IF Contains(<<"multipart", "/", "form", "-", "data">>, content_type)
        THEN "multipart"
        ELSE IF data # <<>> THEN (IF ParsesAsJson(data) THEN "json" ELSE "form")
        ELSE "none"

\* The first index of s that holds one of chars, Len(s) + 1 when none does.
FirstOf(s, chars) ==
    LET hits == {i \in DOMAIN s : s[i] \in chars} IN
    IF hits = {} THEN Len(s) + 1 ELSE CHOOSE i \in hits : \A j \in hits : i <= j

From(s, i) == IF i > Len(s) THEN <<>> ELSE SubSeq(s, i, Len(s))

\* Characters that cannot stand in the scheme of a url.
SchemeBreakers == {"/", "?", "#", "=", "&", "{", "}", "'", "\"", Space}

\* urlparse(url): the path and the query (scheme://netloc before them, the
\* fragment after them; percent-escapes do not occur in the urls of the
\* model).
UrlParse(url) ==
    LET c          == IndexOf(url, ":")
        has_scheme == c > 1 /\ \A j \in 1..(c - 1) : url[j] \notin SchemeBreakers
        after      == IF has_scheme THEN From(url, c + 1) ELSE url
        has_netloc == Len(after) >= 2 /\ after[1] = "/" /\ after[2] = "/"
        rest       == IF has_netloc
                      THEN From(after, 2 + FirstOf(From(after, 3), {"/", "?", "#"}))
                      ELSE after
        nofrag     == SubSeq(rest, 1, FirstOf(rest, {"#"}) - 1)
        q          == FirstOf(nofrag, {"?"})
    IN  [path |-> SubSeq(nofrag, 1, q - 1), query |-> From(nofrag, q + 1)]

\* s.split(sep)
RECURSIVE SplitAt(_, _)
SplitAt(s, sep) ==
    IF IndexOf(s, sep) = 0 THEN <<s>>
    ELSE <<SubSeq(s, 1, IndexOf(s, sep) - 1)>> \o SplitAt(From(s, IndexOf(s, sep) + 1), sep)

\* Lines 185-187: parse_qs(query), the first value of each name; names
\* without "=" and empty values are dropped by parse_qs.
RECURSIVE QueryDict(_, _)
QueryDict(pairs, i) ==
    IF i > Len(pairs) THEN <<>>
    ELSE LET later == QueryDict(pairs, i + 1)
             e     == IndexOf(pairs[i], "=")
         IN  IF e = 0 \/ e = Len(pairs[i]) THEN later
             ELSE SetItem(later, SubSeq(pairs[i], 1, e - 1), From(pairs[i], e + 1))

QueryParams(query) == IF query = <<>> THEN <<>> ELSE QueryDict(SplitAt(query, "&"), 1)

\* _extract_path_variables: the loop over path.split('/') from part i on
\* (i is 1-based here, the code's index is i - 1).  A name such as id_2 is
\* held as the two atoms "id_" and "2".
RECURSIVE PathVariables(_, _, _)
PathVariables(parts, i, vars_so_far) ==
    IF i > Len(parts) THEN vars_so_far
    ELSE LET part == parts[i] IN
         PathVariables(parts, i + 1,
             IF part # <<>> /\ part[1] = "{" /\ part[Len(part)] = "}"
             THEN SetItem(vars_so_far, SubSeq(part, 2, Len(part) - 1),
                          <<"{", "path_var_", ToString(i - 1), "}">>)
             ELSE IF IsDigit(part)
             THEN SetItem(vars_so_far, <<"id_", ToString(i - 1)>>, part)
             ELSE vars_so_far)

ExtractPathVariables(path) == PathVariables(SplitAt(path, "/"), 1, <<>>)

\* What a call of the parser gives: a CurlRequest, or ValueError.
Parsed(request) == [raised |-> FALSE, request |-> request]

ParseError == [raised |-> TRUE, request |-> <<>>]

\* _manual_parse_curl
ManualParseCurl(curl_cmd) ==
    LET tokens == Tokenize(Normalize(curl_cmd)) IN
    IF tokens = <<>> \/ Lower(tokens[1]) # K("curl") THEN ParseError
    ELSE LET st == WalkTokens(tokens, 2,
                       [method |-> MethodGET, url |-> <<>>, headers |-> <<>>, body |-> <<>>])
         IN  IF st.url = <<>> THEN ParseError
             ELSE Parsed([method |-> Upper(st.method), url |-> st.url,
                          headers |-> st.headers, body |-> st.body,
                          query_params |-> QueryParams(UrlParse(st.url).query),
                          path_variables |-> ExtractPathVariables(UrlParse(st.url).path),
                          request_type |-> DetermineRequestType(st.headers, st.body),
                          raw_command |-> curl_cmd])

\* Mutant: a command without a url is parsed with an empty url.
ParseCurlCommand_NoUrlCheck(curl_cmd) ==
    IF \A i \in DOMAIN curl_cmd : IsSpace(curl_cmd[i]) THEN ParseError
    ELSE LET tokens == Tokenize(Normalize(curl_cmd)) IN
         IF tokens = <<>> \/ Lower(tokens[1]) # K("curl") THEN ParseError
         ELSE LET st == WalkTokens(tokens, 2,
                            [method |-> MethodGET, url |-> <<>>, headers |-> <<>>,
                             body |-> <<>>])
              IN  Parsed([method |-> Upper(st.method), url |-> st.url,
                          headers |-> st.headers, body |-> st.body,
                          query_params |-> QueryParams(UrlParse(st.url).query),
                          path_variables |-> ExtractPathVariables(UrlParse(st.url).path),
                          request_type |-> DetermineRequestType(st.headers, st.body),
                          raw_command |-> curl_cmd])

\* parse_curl_command: empty or blank commands are refused, and whatever
\* _manual_parse_curl raises leaves as ValueError.
ParseCurlCommand(curl_cmd) ==
    IF \A i \in DOMAIN curl_cmd : IsSpace(curl_cmd[i]) THEN ParseError
    ELSE ManualParseCurl(curl_cmd)

\* A str-to-str dict as the TestSpec holds it.
StrDict(d) == JDict([k \in DOMAIN d |-> JStr(d[k])])

\* Lines 229-237: the content type of the request, looked up under two
\* spellings, and the assertion on it.
RequestContentType(hdrs) ==
    IF ContentTypeKey \in DOMAIN hdrs /\ hdrs[ContentTypeKey] # <<>>
    THEN hdrs[ContentTypeKey]
    ELSE IF <<"Content", "-", "Type">> \in DOMAIN hdrs
    THEN hdrs[<<"Content", "-", "Type">>]
    ELSE <<>>

\* Lines 220-246: the assertions seeded for a request (their description
\* texts, which nothing reads, are left out).
DefaultAssertions(request) ==
    <<[type |-> "status_code", expected |-> JInt(200)]>>
    \o (IF RequestContentType(request.headers) # <<>>
        THEN <<[type |-> "header", path |-> ContentTypeKey,
                expected |-> JStr(RequestContentType(request.headers)),
                matcher |-> "contains"]>>
        ELSE <<>>)
    \o <<[type |-> "response_time", expected |-> JInt(5000), matcher |-> "less_than"]>>

\* curl_to_test_spec: the TestSpecBase built, or the ValueError of the parser.
CurlToTestSpec(curl_cmd, custom_assertions) ==
    LET parsed == ParseCurlCommand(curl_cmd) IN
    IF parsed.raised THEN [raised |-> TRUE, spec |-> <<>>]
    ELSE LET request == parsed.request IN
         [raised |-> FALSE,
          spec |-> [name |-> <<"Test from curl: ">> \o request.method \o <<Space>>
                             \o request.url,
                    method |-> request.method,
                    path |-> UrlParse(request.url).path,
                    headers |-> StrDict(request.headers),
                    query_params |-> StrDict(request.query_params),
                    path_variables |-> StrDict(request.path_variables),
                    body |-> JStr(request.body),
                    assertions |-> DefaultAssertions(request) \o custom_assertions]]

\* ------------------------------------------------------------------ inputs

\* Longest assertion list of a TestSpec.
MaxAssertions == 2

\* Response bodies (parsed JSON).
BodyUser == JDict(K("user") :> JDict(K("email") :> None))

BodyItems ==
    JDict(K("items") :> JList(<<JDict(K("id") :> JInt(7)), JDict(K("id") :> JInt(5))>>))

BodyA == JDict(K("a") :> JList(<<JInt(1), JInt(2), JInt(3)>>))

BodyANull == JDict(K("a") :> None)

BodyB == JDict(K("b") :> JInt(1))

BodyRoot ==
    JList(<<JDict((K("lineage") :> JStr(K("HL7")))
                  @@ (K("admit_source") :> None)
                  @@ (K("insurance") :>
                        JList(<<JDict(K("insurance_company_id") :> JStr(K("10001")))>>)))>>)

Bodies == {BodyUser, BodyItems, BodyA, BodyANull, BodyB, BodyRoot}

JsonHeaders == <<"content", "-", "type">> :> <<"application", "/", "json">>

JsonResponse(code, body) ==
    [status_code |-> code, headers |-> JsonHeaders, is_json |-> TRUE,
     json |-> body, text |-> <<>>]

TextResponse(code, text) ==
    [status_code |-> code, headers |-> (<<"Content", "-", "Type">> :> <<"text", "/", "plain">>),
     is_json |-> FALSE, json |-> None, text |-> text]

NoResponse ==
    [status_code |-> 0, headers |-> JsonHeaders, is_json |-> FALSE,
     json |-> None, text |-> <<>>]

\* What the service under test may answer.
Responses ==
    {JsonResponse(200, b) : b \in {BodyUser, BodyItems, BodyA, BodyANull, BodyB}}
    \cup {JsonResponse(201, BodyRoot), TextResponse(404, <<"Not", " ", "Found">>)}

\* str(e) of what client.request may raise (some httpx errors print as "").
TransportErrors == {K("ConnectError"), <<>>}

\* Path expressions.
PathA == <<"a">>

PathA5 == <<"a", "[", "5", "]">>

PathADot5 == <<"a", ".", "5">>

PathADot1 == <<"a", ".", "1">>

PathADotX == <<"a", ".", "x">>

PathUserEmail == <<"user", ".", "email">>

PathUserPhone == <<"user", ".", "phone">>

PathItems0Id == <<"items", "[", "0", "]", ".", "id">>

PathItems1Id == <<"items", "[", "1", "]", ".", "id">>

PathItemsDot1Id == <<"items", ".", "1", ".", "id">>

PathRootLineage == <<"[", "0", "]", ".", "lineage">>

PathRootCompany ==
    <<"[", "0", "]", ".", "insurance", "[", "0", "]", ".", "insurance_company_id">>

PathDotCompany == <<"0", ".", "insurance", ".", "0", ".", "insurance_company_id">>

PathDollarInsurance == <<"$", "[", "0", "]", ".", "insurance">>

PathDollarCompany ==
    <<"$", "[", "0", "]", ".", "insurance", "[", "0", "]", ".", "insurance_company_id">>

Paths ==
    {<<>>, PathA, PathA5, PathADot5, PathADot1, PathADotX, PathUserEmail,
     PathUserPhone, <<"user">>, <<"items">>, PathItems0Id, PathItems1Id,
     PathItemsDot1Id, <<"items", ".", "0">>, PathRootLineage, <<"0", ".", "lineage">>,
     <<"0", ".", "admit_source">>, PathRootCompany, PathDotCompany,
     PathDollarInsurance, PathDollarCompany, <<"0">>, <<"[", "0", "]">>}

\* Assertions, as the dicts a TestSpec carries.
Equals(path, expected) == [type |-> "equals", path |-> path, expected |-> expected]

EqualsValue(path, value) == [type |-> "equals", path |-> path, value |-> value]

Exists(path) == [type |-> "exists", path |-> path]

BodyExists(path) == [type |-> "body", path |-> path, matcher |-> "exists"]

AssertionPool ==
    {[type |-> "status_code", expected |-> JInt(200)],
     [type |-> "header", path |-> <<"Content", "-", "Type">>,
      expected |-> JStr(<<"application", "/", "json">>)],
     [type |-> "header", path |-> <<"content", "-", "type">>, matcher |-> "contains"],
     Exists(PathUserEmail), Exists(PathUserPhone),
     Equals(PathItems0Id, JInt(5)), Equals(PathItems1Id, JInt(5)),
     Equals(PathItems0Id, JInt(2)),
     Equals(PathA5, JInt(1)), Equals(PathADot5, JInt(1)), Equals(PathADotX, JInt(1)),
     Equals(PathADot1, JInt(2)), EqualsValue(PathADot1, JInt(2)),
     Equals(PathRootCompany, JStr(K("10001"))), Equals(PathDotCompany, JStr(K("10001"))),
     EqualsValue(PathRootLineage, JStr(K("HL7"))),
     BodyExists(PathDollarInsurance), BodyExists(PathDollarCompany),
     BodyExists(<<"user">>), BodyExists(PathUserPhone)}

\* Assertions on the status code, on the measured time, of a type the
\* specification does not list, and without a type.
StatusCodeIs(code) == [type |-> "status_code", expected |-> JInt(code)]

ResponseTime(matcher, ms) ==
    [type |-> "response_time", matcher |-> matcher, expected |-> JInt(ms)]

DispatchPool ==
    {StatusCodeIs(200), StatusCodeIs(404), StatusCodeIs(500),
     ResponseTime("less_than", 5000), ResponseTime("greater_than", 5000),
     ResponseTime("equals", 5000),
     [type |-> "graphql", expected |-> JInt(1)],
     [expected |-> JInt(200)]}

DispatchResponses ==
    {JsonResponse(200, BodyB), TextResponse(404, <<"Not", " ", "Found">>),
     TextResponse(500, <<"Internal", " ", "Server", " ", "Error">>)}

\* Round-trip times int((end - start) * 1000) may measure, in milliseconds.
ResponseTimes == {120, 5000, 6000}

RECURSIVE SeqsUpTo(_, _)
SeqsUpTo(S, n) ==
    IF n = 0 THEN {<<>>}
    ELSE LET shorter == SeqsUpTo(S, n - 1) IN
         shorter \cup {Append(q, x) : q \in shorter, x \in S}

\* A TestSpecBase (path and path_variables only feed the url, which the
\* model leaves out).
TestSpec(h, q, b, as) ==
    [name |-> K("test"), method |-> "GET", headers |-> h, query_params |-> q,
     body |-> b, assertions |-> as]

TestSpecs == {TestSpec(None, None, None, as) : as \in SeqsUpTo(AssertionPool, MaxAssertions)}

DispatchSpecs ==
    {TestSpec(None, None, None, as) : as \in SeqsUpTo(DispatchPool, MaxAssertions)}

NoSpec ==
    [name |-> <<>>, method |-> "GET", headers |-> None, query_params |-> None,
     body |-> None, assertions |-> <<>>]

\* Executors constructed in one run.
MaxExecutors == 3

\* No auth_config (None).
NoAuthConfig == <<>>

\* auth_config dicts, as AuthConfig.to_dict hands them to the executor.
AuthConfigs ==
    {NoAuthConfig,
     [type |-> K("Bearer"), token |-> JStr(K("T1"))],
     [type |-> K("bearer")],
     [type |-> <<"api_key">>, key_name |-> JStr(<<"X", "-", "API", "-", "Key">>),
      key_value |-> JStr(K("V1"))],
     [type |-> <<"api_key">>, key_name |-> JStr(K("apikey")), key_value |-> JStr(K("V1"))],
     [type |-> <<"api_key">>, key_name |-> JStr(K("apikey"))],
     [type |-> <<"api_key">>, key_value |-> JStr(K("V1"))],
     [type |-> K("basic"), username |-> JStr(K("u")), password |-> JStr(K("p"))],
     [type |-> K("oauth2"), token |-> JStr(K("T2"))],
     [type |-> K("OAuth2"), client_id |-> JStr(K("id")), client_secret |-> JStr(K("s")),
      token_url |-> JStr(K("url"))],
     [type |-> K("oauth2"), client_id |-> JStr(K("id")), client_secret |-> JStr(K("s"))],
     [type |-> K("digest"), token |-> JStr(K("T1"))]}

\* The oauth2 configs an executor may be constructed with: with a token
\* (alone, and next to the credentials), with the credentials only, with
\* an empty token next to the credentials, with no token and no token_url,
\* and with nothing but the type.
OAuth2Configs ==
    {[type |-> K("oauth2"), token |-> JStr(K("T2"))],
     [type |-> K("oauth2"), token |-> JStr(K("T2")), client_id |-> JStr(K("id")),
      client_secret |-> JStr(K("s")), token_url |-> JStr(K("url"))],
     [type |-> K("OAuth2"), client_id |-> JStr(K("id")), client_secret |-> JStr(K("s")),
      token_url |-> JStr(K("url"))],
     [type |-> K("oauth2"), token |-> JStr(<<>>), client_id |-> JStr(K("id")),
      client_secret |-> JStr(K("s")), token_url |-> JStr(K("url"))],
     [type |-> K("oauth2"), client_id |-> JStr(K("id")), client_secret |-> JStr(K("s"))],
     [type |-> K("oauth2")]}

\* What the token endpoint may do with the POST.
TokenOutcomes ==
    {TokenPostRaised,
     TokenPostReturned(401, TRUE, JDict(K("error") :> JStr(K("invalid_client")))),
     TokenPostReturned(200, FALSE, None),
     TokenPostReturned(200, TRUE, JList(<<>>)),
     TokenPostReturned(200, TRUE, JDict(K("token_type") :> JStr(K("bearer")))),
     TokenPostReturned(200, TRUE, JDict(K("access_token") :> JStr(K("T3"))))}

\* Specs with and without headers, query parameters and a body.
AuthSpecs ==
    {TestSpec(h, q, b, as) :
        h \in {None, JDict(<<>>), JDict(K("Accept") :> JStr(K("json")))},
        q \in {None, JDict(K("page") :> JStr(K("1")))},
        b \in {None, JStr(<<"a", "=", "1">>), JDict(K("a") :> JInt(1))},
        as \in {<<>>, <<StatusCodeIs(200)>>}}

AuthResponses == {JsonResponse(200, BodyB), TextResponse(404, <<"Not", " ", "Found">>)}

NoResult ==
    [test_name |-> <<>>, status |-> "none", error_message |-> None,
     response_data |-> None, assertion_results |-> <<>>]

NoExtract == [data |-> None, path |-> <<>>, out |-> Returned(None), called |-> FALSE]

NoParse == [called |-> FALSE, cmd |-> <<>>, raised |-> FALSE, request |-> <<>>]

\* Most execute_test calls made on one executor.
MaxCalls == 2

\* Most arguments after curl in a generated command.
MaxArgs == 4

Url == <<"http", ":", "/", "/", "a">>

QuotedPair == <<"'", "a", "=", "1", "'">>

\* The words the generated commands are made of.
CurlWords == {Short("X"), K("GET"), K("PUT"), Short("d"), Short("F"), QuotedPair, Url}

\* ' '.join(words)
RECURSIVE JoinWords(_, _)
JoinWords(words, i) ==
    IF i > Len(words) THEN <<>>
    ELSE (IF i > 1 THEN <<Space>> ELSE <<>>) \o words[i] \o JoinWords(words, i + 1)

Command(words) == JoinWords(words, 1)

\* Commands picked by hand: blank ones, other programs and spellings of
\* curl, the long options, a line continuation, doubled spaces, quotes that
\* close inside a word, enclose the other quote or never close.
EdgeCommands ==
    {<<>>, <<Space>>, <<Space, Newline, Space>>,
     Command(<<K("wget"), Url>>), Command(<<K("CURL"), Url>>),
     Command(<<K("Curl"), Short("d"), QuotedPair, Url>>),
     Command(<<<<"'", "curl", "'">>, Url>>),
     Command(<<K("curl"), Long(K("request")), K("GET"), Long(K("data")), QuotedPair, Url>>),
     Command(<<K("curl"), Long(<<"data", "-", "raw">>), QuotedPair, Url>>),
     Command(<<K("curl"), Url, Long(<<"data", "-", "binary">>)>>),
     Command(<<K("curl"), Long(K("form")), QuotedPair, Long(K("request")), K("get"), Url>>),
     Command(<<K("curl"), Long(K("location")), Short("X"), K("post"), Url>>),
     <<"curl", Space, Backslash, Newline, Space, Space>> \o Url,
     <<Space, "curl", Space, Space>> \o Url \o <<Newline>>,
     Command(<<K("curl"), <<"a", "'", "b", Space, "c", "'", "d">>, Url>>),
     Command(<<K("curl"), Short("d"), <<"\"", "it", "'", "s", Space, "a", "\"">>, Url>>),
     Command(<<K("curl"), Short("d"), <<"'", "a", Space, "b">>>>)}

\* Most flag-argument pairs of a generated command of pairs and a url.
MaxPairs == 2

ContentTypeJson == <<"Content", "-", "Type", ":", Space, "application", "/", "json">>

Quoted(q, text) == <<q>> \o text \o <<q>>

JsonPayload == <<"{", "\"", "a", "\"", ":", "1", "}">>

\* -X PUT, -H with a content type under two spellings of the name, --header
\* with another header, -d with a form body and with a JSON body.
FlagPairs ==
    {<<Short("X"), K("PUT")>>,
     <<Short("H"), Quoted("\"", ContentTypeJson)>>,
     <<Short("H"), Quoted("'", Lower(ContentTypeJson))>>,
     <<Long(K("header")), Quoted("'", <<"Accept", ":", "json">>)>>,
     <<Short("d"), QuotedPair>>,
     <<Long(K("data")), Quoted("'", JsonPayload)>>}

RECURSIVE Flatten(_, _)
Flatten(pairs, i) == IF i > Len(pairs) THEN <<>> ELSE pairs[i] \o Flatten(pairs, i + 1)

\* curl, the pairs and the url after the first k of them.
PairCommand(pairs, k) ==
    Command(<<K("curl")>> \o Flatten(SubSeq(pairs, 1, k), 1) \o <<Url>>
            \o Flatten(SubSeq(pairs, k + 1, Len(pairs)), 1))

PairCommands ==
    UNION {{PairCommand(pairs, k) : k \in 0..Len(pairs)} :
               pairs \in SeqsUpTo(FlagPairs, MaxPairs)}

\* Payloads of -d: plain, JSON, a JSON string, with a quote inside, with a
\* run of spaces, with a newline, with a line continuation.
Payloads ==
    {<<"a", "=", "1">>, JsonPayload, <<"\"", "abc", "\"">>, <<"'", "abc", "'">>,
     <<"a", "\"", "b">>, <<"a", Space, Space, "b">>, <<"a", Newline, "b">>,
     <<"a", Backslash, Newline, "b">>}

\* curl -d <q>payload<q> url
PayloadCommand(q, payload) ==
    Command(<<K("curl"), Short("d"), Quoted(q, payload), Url>>)

PayloadCommands ==
    UNION {{PayloadCommand(q, payload) : payload \in {t \in Payloads : q \notin Range(t)}} :
               q \in QuoteChars}

UrlOfUser == Url \o <<"/", "users", "/", "5">>

UrlTemplate ==
    Url \o <<"/", "users", "/", "{", "id", "}", "/", "x", "?", "b", "=", "2", "&", "c", "=",
             "&", "b", "=", "1">>

\* Commands given to curl_to_test_spec: plain, with a numeric and with a
\* templated path segment, with a method that is no HTTP verb, with a
\* content type under both spellings, with a JSON body and with a form body,
\* and one without url.
ConvertCommands ==
    {Command(<<K("curl"), Url>>),
     Command(<<K("curl"), UrlOfUser>>),
     Command(<<K("curl"), UrlTemplate>>),
     Command(<<K("curl"), Short("X"), K("FOO"), Url>>),
     Command(<<K("curl"), Short("H"), Quoted("\"", ContentTypeJson), Short("d"),
               Quoted("'", JsonPayload), Url>>),
     Command(<<K("curl"), Short("H"), Quoted("'", Lower(ContentTypeJson)), Url>>),
     Command(<<K("curl"), Short("H"), Quoted("'", Lower(ContentTypeJson)), Short("d"),
               Quoted("'", JsonPayload), Url>>),
     Command(<<K("curl"), Short("d"), Quoted("'", JsonPayload), Url>>),
     Command(<<K("curl"), Short("X"), K("PUT"), Short("d"), QuotedPair, UrlOfUser>>),
     Command(<<K("curl"), Short("d"), QuotedPair>>)}

\* The custom assertions given to curl_to_test_spec.
CustomAssertions == {<<>>, <<StatusCodeIs(200)>>}

NoConvert ==
    [called |-> FALSE, cmd |-> <<>>, custom |-> <<>>, raised |-> FALSE, spec |-> <<>>]

Commands ==
    {Command(<<K("curl")>> \o args) : args \in SeqsUpTo(CurlWords, MaxArgs)}
        \cup EdgeCommands \cup PairCommands \cup PayloadCommands \cup ConvertCommands

\* ----------------------------------------------------------- state machine

\* TestExecutor(base_url, auth_config=cfg) just constructed: its client is
\* open, no test run yet.
Constructed(cfg) ==
    /\ pc = "idle"
    /\ test_spec = NoSpec
    /\ http = "pending"
    /\ response = NoResponse
    /\ idx = 1
    /\ results = <<>>
    /\ evaluated = 0
    /\ result = NoResult
    /\ response_time_ms = 0
    /\ req_headers = <<>>
    /\ req_params = <<>>
    /\ req_body = None
    /\ token_response = NoTokenCall
    /\ auth_config = cfg
    /\ executors = 1
    /\ clients = <<"open">>
    /\ calls = 0
    /\ token_posts = 0
    /\ lastExtract = NoExtract
    /\ test_runs = <<>>
    /\ test_results = <<>>
    /\ tasks = <<>>
    /\ cancelling = {}

\* An executor constructed without auth_config.
IdleExecutor == Constructed(NoAuthConfig)

Init ==
    /\ IdleExecutor
    /\ lastParse = NoParse
    /\ lastConvert = NoConvert

\* The parser about to be called with one of the commands.
InitCurl ==
    /\ IdleExecutor
    /\ lastParse \in {[NoParse EXCEPT !.cmd = curl_cmd] : curl_cmd \in Commands}
    /\ lastConvert = NoConvert

\* curl_to_test_spec about to be called with one of the commands.
InitConvert ==
    /\ IdleExecutor
    /\ lastParse = NoParse
    /\ lastConvert \in {[NoConvert EXCEPT !.cmd = curl_cmd] : curl_cmd \in ConvertCommands}

\* The locals of a call that has not started.
NoCall ==
    /\ http' = "pending"
    /\ response' = NoResponse
    /\ idx' = 1
    /\ results' = <<>>
    /\ evaluated' = 0
    /\ result' = NoResult
    /\ response_time_ms' = 0
    /\ req_headers' = <<>>
    /\ req_params' = <<>>
    /\ req_body' = None
    /\ token_response' = NoTokenCall

\* execute_test is called with spec: lines 50-51.
ExecuteTest(spec) ==
    /\ pc = "idle"
    /\ calls < MaxCalls
    /\ calls' = calls + 1
    /\ pc' = "preparing"
    /\ test_spec' = spec
    /\ NoCall
    /\ UNCHANGED <<auth_config, executors, clients, token_posts, pureVars, runVars>>

\* Lines 56-60 when _apply_authentication makes no HTTP call: headers and
\* params are the spec's dicts (or new ones), and the strategy writes them.
Authenticate ==
    /\ pc = "preparing"
    /\ ~NeedsTokenRequest(auth_config)
    /\ LET out == ApplyAuthentication(auth_config, OrEmpty(test_spec.headers),
                                      OrEmpty(test_spec.query_params),
                                      GetOAuth2Token(auth_config, NoTokenCall).value)
       IN  /\ req_headers' = out.headers
           /\ req_params' = out.params
           /\ test_spec' = WrittenThrough(test_spec, out.headers, out.params)
    /\ pc' = "authenticated"
    /\ UNCHANGED <<http, response, idx, results, evaluated, result, response_time_ms,
                   req_body, token_response, ownVars, pureVars, runVars>>

\* Lines 56-60 up to client.post of _get_oauth2_token (line 652).
RequestToken ==
    /\ pc = "preparing"
    /\ NeedsTokenRequest(auth_config)
    /\ req_headers' = OrEmpty(test_spec.headers)
    /\ req_params' = OrEmpty(test_spec.query_params)
    /\ token_posts' = token_posts + 1
    /\ pc' = "token"
    /\ UNCHANGED <<test_spec, http, response, idx, results, evaluated, result,
                   response_time_ms, req_body, token_response, auth_config, executors,
                   clients, calls, pureVars, runVars>>

\* client.post is over (post): the rest of _get_oauth2_token and of
\* _apply_oauth2_auth.  Were _get_oauth2_token to raise, the except of
\* execute_test would take over.
TokenReturns(post) ==
    /\ pc = "token"
    /\ token_response' = post
    /\ LET got == GetOAuth2Token(auth_config, post) IN
       IF got.raised
       THEN /\ result' = TestErrored(test_spec, K("TokenError"))
            /\ pc' = "done"
            /\ UNCHANGED <<test_spec, req_headers, req_params>>
       ELSE LET out == ApplyOAuth2Auth(auth_config, req_headers, req_params, got.value) IN
            /\ req_headers' = out.headers
            /\ req_params' = out.params
            /\ test_spec' = WrittenThrough(test_spec, out.headers, out.params)
            /\ pc' = "authenticated"
            /\ UNCHANGED result
    /\ UNCHANGED <<http, response, idx, results, evaluated, response_time_ms, req_body,
                   ownVars, pureVars, runVars>>

\* Line 63 and _make_request up to client.request (lines 156-161).
PrepareRequest ==
    /\ pc = "authenticated"
    /\ LET b == PrepareBody(test_spec)
           h == DefaultContentType(req_headers, b)
       IN  /\ req_body' = b
           /\ req_headers' = h
           /\ test_spec' = WrittenThrough(test_spec, h, req_params)
    /\ pc' = "requesting"
    /\ UNCHANGED <<http, response, idx, results, evaluated, result, response_time_ms,
                   req_params, token_response, ownVars, pureVars, runVars>>

\* client.request raises: the except branch, lines 101-112.  (The time the
\* branch measures at line 104 is a local that nothing reads.)
RequestRaises(error) ==
    /\ pc = "requesting"
    /\ http' = "raised"
    /\ result' = TestErrored(test_spec, error)
    /\ pc' = "done"
    /\ UNCHANGED <<test_spec, response, idx, results, evaluated, response_time_ms,
                   reqVars, ownVars, pureVars, runVars>>

\* Mutant: the request helper calls response.raise_for_status(), so an
\* error status leaves through the except branch of execute_test.
RequestReturns_RaiseForStatus(resp, ms) ==
    /\ pc = "requesting"
    /\ response' = resp
    /\ response_time_ms' = ms
    /\ IF resp.status_code >= 400
       THEN /\ http' = "raised"
            /\ result' = TestErrored(test_spec, K("HTTPStatusError"))
            /\ pc' = "done"
       ELSE /\ http' = "responded"
            /\ pc' = "asserting"
            /\ UNCHANGED result
    /\ UNCHANGED <<test_spec, idx, results, evaluated, reqVars, ownVars, pureVars, runVars>>

\* client.request returns a response (of any status code) after ms
\* milliseconds: lines 66-76.  No status code raises: _make_request returns
\* the response as it is.
RequestReturns(resp, ms) ==
    /\ pc = "requesting"
    /\ http' = "responded"
    /\ response' = resp
    /\ response_time_ms' = ms
    /\ pc' = "asserting"
    /\ UNCHANGED <<test_spec, idx, results, evaluated, result, reqVars, ownVars,
                   pureVars, runVars>>

\* One iteration of `for assertion in assertions`, lines 191-205.  Were the
\* iteration to raise, the except of execute_test would take over.
RunAssertion ==
    /\ pc = "asserting"
    /\ idx <= Len(test_spec.assertions)
    /\ LET r == RunAssertionsStep(test_spec.assertions[idx], response) IN
       /\ evaluated' = evaluated + 1
       /\ IF r.raised
          THEN /\ result' = TestErrored(test_spec, r.error)
               /\ pc' = "done"
               /\ UNCHANGED <<idx, results>>
          ELSE /\ results' = Append(results, r.result)
               /\ idx' = idx + 1
               /\ UNCHANGED <<pc, result>>
    /\ UNCHANGED <<test_spec, http, response, response_time_ms, reqVars, ownVars,
                   pureVars, runVars>>

\* The loop is over: lines 82-99.
ReturnResult ==
    /\ pc = "asserting"
    /\ idx > Len(test_spec.assertions)
    /\ result' = TestCompleted(test_spec, response, results)
    /\ pc' = "done"
    /\ UNCHANGED <<test_spec, http, response, idx, results, evaluated,
                   response_time_ms, reqVars, ownVars, pureVars, runVars>>

\* The caller has its result; the executor can run the next test.
NextTest ==
    /\ pc = "done"
    /\ pc' = "idle"
    /\ test_spec' = NoSpec
    /\ NoCall
    /\ UNCHANGED <<ownVars, pureVars, runVars>>

\* (The guards on pc are repeated in front of the quantifiers so that the
\* inputs are enumerated only where the action can happen.)
Next ==
    \/ pc = "idle" /\ \E spec \in TestSpecs : ExecuteTest(spec)
    \/ Authenticate
    \/ PrepareRequest
    \/ pc = "requesting" /\ \E error \in TransportErrors : RequestRaises(error)
    \/ pc = "requesting" /\ \E resp \in Responses : RequestReturns(resp, 120)
    \/ RunAssertion
    \/ ReturnResult
    \/ NextTest

Spec == Init /\ [][Next]_vars

\* The same executor on the inputs that exercise the dispatch on the type,
\* the status codes of errors and the measured time.
NextDispatch ==
    \/ pc = "idle" /\ \E spec \in DispatchSpecs : ExecuteTest(spec)
    \/ Authenticate
    \/ PrepareRequest
    \/ pc = "requesting" /\ \E error \in TransportErrors : RequestRaises(error)
    \/ pc = "requesting" /\ \E resp \in DispatchResponses, ms \in ResponseTimes :
                               RequestReturns(resp, ms)
    \/ RunAssertion
    \/ ReturnResult
    \/ NextTest

SpecDispatch == Init /\ [][NextDispatch]_vars

\* Mutant: __exit__ closes the client only when the block raised.
ExitWith_OnlyOnException(exc) ==
    /\ pc = "done" \/ (pc = "idle" /\ exc)
    /\ clients' = IF exc THEN [clients EXCEPT ![Len(clients)] = "closed"] ELSE clients
    /\ pc' = "exited"
    /\ UNCHANGED <<test_spec, http, response, idx, results, evaluated, result,
                   response_time_ms, reqVars, auth_config, executors, calls, token_posts,
                   pureVars, runVars>>

\* The with block of execute_test_run_background is left: normally after the
\* result is recorded, or by an exception (exc) of TestSpecBase(**...) before
\* execute_test or of the statements after it; __exit__ calls close() either
\* way.
ExitWith(exc) ==
    /\ pc = "done" \/ (pc = "idle" /\ exc)
    /\ clients' = [clients EXCEPT ![Len(clients)] = "closed"]
    /\ pc' = "exited"
    /\ UNCHANGED <<test_spec, http, response, idx, results, evaluated, result,
                   response_time_ms, reqVars, auth_config, executors, calls, token_posts,
                   pureVars, runVars>>

\* `with TestExecutor(service.base_url, auth_config=cfg) as executor` for the
\* next test case: __init__ creates the executor's client, __enter__ returns
\* the executor.
EnterWith(cfg) ==
    /\ pc = "exited"
    /\ executors < MaxExecutors
    /\ executors' = executors + 1
    /\ clients' = Append(clients, "open")
    /\ auth_config' = cfg
    /\ calls' = 0
    /\ token_posts' = 0
    /\ pc' = "idle"
    /\ test_spec' = NoSpec
    /\ NoCall
    /\ UNCHANGED <<pureVars, runVars>>

\* Executors with an auth_config, each used for one test inside a with
\* block, as execute_test_run_background uses them.
NextAuth ==
    \/ pc = "exited" /\ \E cfg \in AuthConfigs : EnterWith(cfg)
    \/ pc = "idle" /\ \E spec \in AuthSpecs : ExecuteTest(spec)
    \/ Authenticate
    \/ RequestToken
    \/ pc = "token" /\ \E post \in TokenOutcomes : TokenReturns(post)
    \/ PrepareRequest
    \/ pc = "requesting" /\ \E error \in TransportErrors : RequestRaises(error)
    \/ pc = "requesting" /\ \E resp \in AuthResponses : RequestReturns(resp, 120)
    \/ RunAssertion
    \/ ReturnResult
    \/ \E exc \in BOOLEAN : ExitWith(exc)

SpecAuth == Init /\ [][NextAuth]_vars

\* TestExecutor(base_url, auth_config=cfg) has been constructed with an
\* oauth2 config.
InitOAuth2 ==
    /\ \E cfg \in OAuth2Configs : Constructed(cfg)
    /\ lastParse = NoParse
    /\ lastConvert = NoConvert

\* One executor with an oauth2 config, execute_test called on it again and
\* again.
NextOAuth2 ==
    \/ pc = "idle" /\ \E spec \in AuthSpecs : ExecuteTest(spec)
    \/ Authenticate
    \/ RequestToken
    \/ pc = "token" /\ \E post \in TokenOutcomes : TokenReturns(post)
    \/ PrepareRequest
    \/ pc = "requesting" /\ \E error \in TransportErrors : RequestRaises(error)
    \/ pc = "requesting" /\ \E resp \in AuthResponses : RequestReturns(resp, 120)
    \/ RunAssertion
    \/ ReturnResult
    \/ NextTest

SpecOAuth2 == InitOAuth2 /\ [][NextOAuth2]_vars

\* A direct call of _extract_json_path(data, path), as the fixtures call the
\* executor's private methods.
ExtractCall(data, path) ==
    /\ lastExtract' = [data |-> data, path |-> path,
                       out |-> ExtractJsonPath(data, path), called |-> TRUE]
    /\ UNCHANGED <<pc, test_spec, http, response, idx, results, evaluated, result,
                   response_time_ms, reqVars, ownVars, lastParse, lastConvert,
                   runVars>>

NextResolve == \E data \in Bodies, path \in Paths : ExtractCall(data, path)

SpecResolve == Init /\ [][NextResolve]_vars

\* The call of CurlParser.parse_curl_command on the command, as the
\* endpoints make it.
ParseCall ==
    /\ ~lastParse.called
    /\ lastParse' = [called |-> TRUE, cmd |-> lastParse.cmd,
                     raised |-> ParseCurlCommand(lastParse.cmd).raised,
                     request |-> ParseCurlCommand(lastParse.cmd).request]
    /\ UNCHANGED <<pc, test_spec, http, response, idx, results, evaluated, result,
                   response_time_ms, reqVars, ownVars, lastExtract, lastConvert,
                   runVars>>

NextCurl == ParseCall

\* The call of CurlParser.curl_to_test_spec on the command.
ConvertCall(custom_assertions) ==
    /\ pc = "idle"
    /\ ~lastConvert.called
    /\ lastConvert' = [called |-> TRUE, cmd |-> lastConvert.cmd,
                       custom |-> custom_assertions,
                       raised |-> CurlToTestSpec(lastConvert.cmd, custom_assertions).raised,
                       spec |-> CurlToTestSpec(lastConvert.cmd, custom_assertions).spec]
    /\ UNCHANGED <<pc, test_spec, http, response, idx, results, evaluated, result,
                   response_time_ms, reqVars, ownVars, lastExtract, lastParse,
                   runVars>>

\* The spec built from the command is executed, once.
ExecuteConverted ==
    /\ lastConvert.called
    /\ ~lastConvert.raised
    /\ result = NoResult
    /\ ExecuteTest(lastConvert.spec)

NextConvert ==
    \/ \E custom_assertions \in CustomAssertions : ConvertCall(custom_assertions)
    \/ ExecuteConverted
    \/ Authenticate
    \/ PrepareRequest
    \/ pc = "requesting" /\ \E error \in TransportErrors : RequestRaises(error)
    \/ pc = "requesting" /\ \E resp \in DispatchResponses, ms \in ResponseTimes :
                               RequestReturns(resp, ms)
    \/ RunAssertion
    \/ ReturnResult

SpecConvert == InitConvert /\ [][NextConvert]_vars

SpecCurl == InitCurl /\ [][NextCurl]_vars

\* ---------------------------------------------------------------- test runs
\* The endpoints of test_runs.py and the background task they start.  The
\* tables are read and written in transactions of the database's default
\* isolation (read committed): a commit writes the columns its session
\* changed, whatever another session has committed since the row was read.

\* Most test runs created.
MaxRuns == 2

\* Most test case ids in one request.
MaxIds == 2

\* The test cases of the table: an active one of an active service, an
\* active one whose service is missing or inactive, an inactive one.
CaseActive == "case_active"

CaseNoService == "case_no_service"

CaseInactive == "case_inactive"

\* An id that no test case has.
CaseUnknown == "case_unknown"

CaseIds == {CaseActive, CaseNoService, CaseInactive, CaseUnknown}

\* The lists of test case ids a request may carry (repetitions included).
IdLists == SeqsUpTo(CaseIds, MaxIds)

\* TestCase.is_active
IsActiveCase(id) == id \in {CaseActive, CaseNoService}

\* Lines 138-141: the active service of the test case is found.
HasService(id) == id = CaseActive

\* The order in which the query of lines 127-130 returns test cases.
CaseOrder == <<CaseActive, CaseNoService, CaseInactive>>

\* Lines 127-130: the test cases with an id of the list that are active.
ActiveCasesIn(ids) ==
    SelectSeq(CaseOrder, LAMBDA id : IsActiveCase(id) /\ \E i \in DOMAIN ids : ids[i] = id)

\* What the with block of lines 165-194 may give for a test case: the status
\* of the result of execute_test, or an exception.
CaseOutcomes == {"passed", "failed", "raised"}

\* TestRun(name=name, status="running", total_tests=n, passed_tests=0,
\* failed_tests=0)
NewTestRun(name, n) ==
    [name |-> name, status |-> "running", total_tests |-> n, passed_tests |-> 0,
     failed_tests |-> 0]

\* The name given to create_test_run, and the one execute_test_run makes up
\* when it is given none.
RunName == <<"nightly">>

DefaultRunName == <<"Test Run - ", "ts">>

\* No background task was added for the run.
NoTask ==
    [pc |-> "none", test_case_ids |-> <<>>, test_cases |-> <<>>, passed_tests |-> 0,
     failed_tests |-> 0, added |-> <<>>]

\* background_tasks.add_task(execute_test_run_background, id, test_case_ids)
AddedTask(test_case_ids) == [NoTask EXCEPT !.pc = "added", !.test_case_ids = test_case_ids]

\* The task has returned; its locals are gone.
ReturnedTask == [NoTask EXCEPT !.pc = "returned"]

\* db.add(test_run); db.commit(), and the task of the run.
AddTestRun(name, n, task) ==
    /\ Len(test_runs) < MaxRuns
    /\ test_runs' = Append(test_runs, NewTestRun(name, n))
    /\ test_results' = Append(test_results, <<>>)
    /\ tasks' = Append(tasks, task)
    /\ UNCHANGED cancelling

\* The variables of the executor, which the test runs leave alone.
executorVars ==
    <<pc, test_spec, http, response, idx, results, evaluated, result, response_time_ms,
      reqVars, ownVars, pureVars>>

\* create_test_run: total_tests is 0; the task is added when ids are given.
CreateTestRun(test_case_ids) ==
    /\ AddTestRun(RunName, 0,
                  IF test_case_ids # <<>> THEN AddedTask(test_case_ids) ELSE NoTask)
    /\ UNCHANGED executorVars

\* execute_test_run: total_tests is the number of ids given.
ExecuteTestRun(test_case_ids) ==
    /\ AddTestRun(DefaultRunName, Len(test_case_ids), AddedTask(test_case_ids))
    /\ UNCHANGED executorVars

\* retry_test_run: a new run over the test case ids of the results of the
\* original run.
RetryTestRun(test_run_id) ==
    /\ test_run_id \in DOMAIN test_runs
    /\ AddTestRun(<<"Retry: ">> \o test_runs[test_run_id].name,
                  Len(test_results[test_run_id]), AddedTask(test_results[test_run_id]))
    /\ UNCHANGED executorVars

\* execute_test_run_background, lines 120-133: the run is read, the active
\* test cases are queried, the counters start at 0.
TaskBegins(test_run_id) ==
    /\ test_run_id \in DOMAIN tasks
    /\ tasks[test_run_id].pc = "added"
    /\ tasks' = [tasks EXCEPT ![test_run_id] =
                    [@ EXCEPT !.pc = "running",
                              !.test_cases = ActiveCasesIn(tasks[test_run_id].test_case_ids)]]
    /\ UNCHANGED <<test_runs, test_results, cancelling, executorVars>>

\* One iteration of the loop of lines 136-216: a result is added to the
\* session and one of the two local counters goes up: failed_tests when the
\* service is missing (lines 143-160), when the result is not 'passed' and
\* when the iteration raised (lines 196-216).
TaskRunsCase(test_run_id, outcome) ==
    /\ test_run_id \in DOMAIN tasks
    /\ tasks[test_run_id].pc = "running"
    /\ tasks[test_run_id].test_cases # <<>>
    /\ LET test_case == Head(tasks[test_run_id].test_cases)
           passed    == HasService(test_case) /\ outcome = "passed"
       IN  tasks' = [tasks EXCEPT ![test_run_id] =
                        [@ EXCEPT !.test_cases = Tail(@),
                                  !.added = Append(@, test_case),
                                  !.passed_tests = IF passed THEN @ + 1 ELSE @,
                                  !.failed_tests = IF passed THEN @ ELSE @ + 1]]
    /\ UNCHANGED <<test_runs, test_results, cancelling, executorVars>>

\* Lines 218-227 and the commit of managed_transaction: the counters and the
\* status 'completed' are written to the run, the results are committed.
TaskCompletes(test_run_id) ==
    /\ test_run_id \in DOMAIN tasks
    /\ tasks[test_run_id].pc = "running"
    /\ tasks[test_run_id].test_cases = <<>>
    /\ test_runs' = [test_runs EXCEPT ![test_run_id] =
                        [@ EXCEPT !.passed_tests = tasks[test_run_id].passed_tests,
                                  !.failed_tests = tasks[test_run_id].failed_tests,
                                  !.status = "completed"]]
    /\ test_results' = [test_results EXCEPT ![test_run_id] = tasks[test_run_id].added]
    /\ tasks' = [tasks EXCEPT ![test_run_id] = ReturnedTask]
    /\ UNCHANGED <<cancelling, executorVars>>

\* A query, a flush or the commit of the task raises: the transaction is
\* rolled back and lines 229-242 set the status 'failed' in a session of
\* their own.
TaskFails(test_run_id) ==
    /\ test_run_id \in DOMAIN tasks
    /\ tasks[test_run_id].pc = "running"
    /\ test_runs' = [test_runs EXCEPT ![test_run_id] = [@ EXCEPT !.status = "failed"]]
    /\ tasks' = [tasks EXCEPT ![test_run_id] = ReturnedTask]
    /\ UNCHANGED <<test_results, cancelling, executorVars>>

\* cancel_test_run, lines 390-396: the run is read and found running.  (A
\* run that is not found or not running raises, and nothing changes.)
CancelReads(test_run_id) ==
    /\ test_run_id \in DOMAIN test_runs
    /\ test_run_id \notin cancelling
    /\ test_runs[test_run_id].status = "running"
    /\ cancelling' = cancelling \cup {test_run_id}
    /\ UNCHANGED <<test_runs, test_results, tasks, executorVars>>

\* cancel_test_run, lines 398-401: status 'cancelled' is committed.
CancelCommits(test_run_id) ==
    /\ test_run_id \in cancelling
    /\ test_runs' = [test_runs EXCEPT ![test_run_id] = [@ EXCEPT !.status = "cancelled"]]
    /\ cancelling' = cancelling \ {test_run_id}
    /\ UNCHANGED <<test_results, tasks, executorVars>>

RunIds == 1..MaxRuns

NextRuns ==
    \/ \E test_case_ids \in IdLists : CreateTestRun(test_case_ids)
    \/ \E test_case_ids \in IdLists : ExecuteTestRun(test_case_ids)
    \/ \E test_run_id \in RunIds : RetryTestRun(test_run_id)
    \/ \E test_run_id \in RunIds : TaskBegins(test_run_id)
    \/ \E test_run_id \in RunIds, outcome \in CaseOutcomes : TaskRunsCase(test_run_id, outcome)
    \/ \E test_run_id \in RunIds : TaskCompletes(test_run_id)
    \/ \E test_run_id \in RunIds : TaskFails(test_run_id)
    \/ \E test_run_id \in RunIds : CancelReads(test_run_id)
    \/ \E test_run_id \in RunIds : CancelCommits(test_run_id)

SpecRuns == Init /\ [][NextRuns]_vars


\* ------------------------------------------- the specification's resolver
\* PathResolver as the specification words it (section 4.4), the reference
\* the claims on paths are stated against: tokens separated by ".", each a
\* name and/or [index] accessors, a leading bare [index] (or "$", the root)
\* for a root-level array; a missing key, an accessor that is no index of
\* the list, and an index out of bounds are not-found; null is found.

KeyStep(atom) == [kind |-> "key", key |-> K(atom)]

IndexStep(atom) == [kind |-> "index", key |-> K(atom)]

RECURSIVE Accessors(_, _)
Accessors(tok, i) ==
    IF i + 2 > Len(tok) THEN <<>>
    ELSE <<IndexStep(tok[i + 1])>> \o Accessors(tok, i + 3)

TokenSteps(tok) ==
    IF tok = <<>> THEN <<>>
    ELSE IF tok[1] = "$" THEN Accessors(tok, 2)
    ELSE IF tok[1] = "[" THEN Accessors(tok, 1)
    ELSE <<KeyStep(tok[1])>> \o Accessors(tok, 2)

RECURSIVE ConcatSteps(_, _)
ConcatSteps(toks, i) ==
    IF i > Len(toks) THEN <<>> ELSE TokenSteps(toks[i]) \o ConcatSteps(toks, i + 1)

SpecSteps(path) == ConcatSteps(Split(path), 1)

NotFound == [found |-> FALSE, value |-> None]

RECURSIVE SpecWalk(_, _, _)
SpecWalk(v, steps, i) ==
    IF i > Len(steps) THEN [found |-> TRUE, value |-> v]
    ELSE LET st == steps[i] IN
         IF st.kind = "key" /\ v.t = "dict"
         THEN IF st.key \in DOMAIN v.v THEN SpecWalk(v.v[st.key], steps, i + 1)
              ELSE NotFound
         ELSE IF v.t = "list" /\ IsDigit(st.key) /\ ToInt(st.key) < Len(v.v)
         THEN SpecWalk(v.v[ToInt(st.key) + 1], steps, i + 1)
         ELSE NotFound

SpecResolved(v, path) == SpecWalk(v, SpecSteps(path), 1)

SpecFound(v, path) == SpecResolved(v, path).found

\* The path's alternatives under array-order tolerance: the same steps with
\* the last index replaced by each other index of that array.
LastIndexPos(steps) ==
    LET I == {i \in DOMAIN steps : steps[i].kind = "index"} IN
    IF I = {} THEN 0 ELSE CHOOSE i \in I : \A j \in I : j <= i

MatchesElsewhere(v, path, expected) ==
    LET steps == SpecSteps(path)
        k     == LastIndexPos(steps)
    IN  /\ k > 0
        /\ \E d \in DOMAIN DigitValue :
              LET r == SpecWalk(v, [steps EXCEPT ![k] = IndexStep(d)], 1) IN
              r.found /\ JEq(r.value, expected)

MatchesDirectly(v, path, expected) ==
    SpecResolved(v, path).found /\ JEq(SpecResolved(v, path).value, expected)

\* ------------------------------------------------------------------ claims

TypeOf(assertion) == GetOr(assertion, "type", "unknown")

Responded == http = "responded"

Body == ExtractResponseBody(response)

\* The assertions of the call whose results are in: 1..Len(results).
Evaluated == IF Responded THEN DOMAIN results ELSE {}

AllPassed(rs) == \A i \in DOMAIN rs : rs[i].passed

\* C1: the returned TestResult has status "passed" if and only if the request
\* completed without a transport error and every AssertionResult in
\* assertion_results has passed = true; otherwise the status is "failed".
C1_PassedIffRespondedAndAllPassed ==
    pc = "done" =>
        /\ result.status \in {"passed", "failed"}
        /\ result.status = "passed"
              <=> (Responded /\ AllPassed(result.assertion_results))

C1_Witness ==
    /\ pc = "done"
    /\ result.status = "passed"
    /\ Len(result.assertion_results) = MaxAssertions

\* C2: evaluation yields exactly one result record per input assertion, in
\* input order, and never raises: an assertion whose evaluation throws gives
\* a record with passed = false and a diagnostic message, and the assertions
\* after it are still evaluated.
C2_OneResultPerAssertionInOrder ==
    /\ pc = "asserting" => /\ Len(results) = idx - 1
                           /\ evaluated = idx - 1
    /\ \A i \in Evaluated :
          LET a == test_spec.assertions[i] IN
          /\ results[i].type = TypeOf(a)
          /\ JEq(results[i].expected, Get(a, "expected"))
          /\ RunSingleAssertion(a, response).raised =>
                /\ ~results[i].passed
                /\ results[i].message[1].v = K("Assertion execution failed: ")
    /\ (pc = "done" /\ Responded) =>
          /\ result.error_message.t = "null"
          /\ Len(result.assertion_results) = Len(test_spec.assertions)
          /\ \A i \in DOMAIN result.assertion_results :
                /\ result.assertion_results[i].type = results[i].type
                /\ result.assertion_results[i].passed = results[i].passed

C2_Witness ==
    /\ pc = "done"
    /\ Responded
    /\ Len(test_spec.assertions) = 2
    /\ RunSingleAssertion(test_spec.assertions[1], response).raised
    /\ Len(result.assertion_results) = 2
    /\ result.assertion_results[2].passed

\* C3: error_message is set only when the HTTP call itself failed; then
\* assertion_results is empty and no assertion was evaluated.  Whenever a
\* response was obtained, error_message is unset and assertion_results holds
\* the outcome of every assertion of the spec.
C3_ErrorMessageOnlyOnTransportError ==
    pc = "done" =>
        /\ result.error_message.t # "null" => http = "raised"
        /\ http = "raised" =>
              /\ result.error_message.t # "null"
              /\ result.status = "failed"
              /\ Len(result.assertion_results) = 0
              /\ evaluated = 0
        /\ Responded =>
              /\ result.error_message.t = "null"
              /\ Len(result.assertion_results) = Len(test_spec.assertions)
              /\ evaluated = Len(test_spec.assertions)

C3_Witness ==
    /\ pc = "done"
    /\ http = "raised"
    /\ Len(test_spec.assertions) = MaxAssertions
    /\ result.error_message.t = "str"

\* C4: an assertion of type exists passes if and only if its path resolves
\* in the parsed response body, whatever the value found there, null
\* included; it fails when a key on the path is absent.
C4_ExistsPassesIffPathResolves ==
    \A i \in Evaluated :
        LET a == test_spec.assertions[i] IN
        TypeOf(a) = "exists" => (results[i].passed <=> SpecFound(Body, PathOf(a)))

\* C5: for an equals assertion whose path indexes into an array (the stated
\* index being one of the array), with array-order tolerance (the default):
\* a match at the stated index passes with no warning; a match at another
\* index of the same array only passes with a position-mismatch WARNING in
\* the message; no match at any index fails with no warning.
C5_EqualsToleratesArrayOrder ==
    \A i \in Evaluated :
        LET a == test_spec.assertions[i]
            direct == MatchesDirectly(Body, a.path, a.expected)
            other  == MatchesElsewhere(Body, a.path, a.expected)
        IN  (/\ TypeOf(a) = "equals"
             /\ "expected" \in DOMAIN a
             /\ "[" \in Range(PathOf(a))
             /\ SpecFound(Body, PathOf(a))) =>
                /\ direct => (results[i].passed /\ ~HasWarning(results[i]))
                /\ (~direct /\ other) => (results[i].passed /\ HasWarning(results[i]))
                /\ (~direct /\ ~other) => (~results[i].passed /\ ~HasWarning(results[i]))

OutEq(a, b) == a.raised = b.raised /\ JEq(a.value, b.value)

\* A call that resolved the one-key path `key` against a dict.
OneKeyCall(call) ==
    /\ call.called
    /\ call.data.t = "dict"
    /\ Len(call.path) = 1

\* C6: path resolution distinguishes a key present with value null from an
\* absent key: resolving a against {"a": null} and against a map without a
\* never give the same outcome.
C6_NullDiffersFromAbsent ==
    [][(/\ OneKeyCall(lastExtract)
        /\ OneKeyCall(lastExtract')
        /\ lastExtract'.path = lastExtract.path
        /\ lastExtract.path \in DOMAIN lastExtract.data.v
        /\ lastExtract.data.v[lastExtract.path].t = "null"
        /\ lastExtract'.path \notin DOMAIN lastExtract'.data.v)
       => ~OutEq(lastExtract.out, lastExtract'.out)]_vars

\* C7: resolving never produces an error: a key missing from a map, a
\* non-numeric accessor applied to a list and an index out of bounds each
\* yield not-found, not an exception.
C7_NotFoundIsNotAnError ==
    (lastExtract.called /\ ~SpecFound(lastExtract.data, lastExtract.path))
        => ~lastExtract.out.raised

\* C8: paths support [index] accessors, after a name, one after another,
\* followed by further dotted tokens, and as a leading bare [i] on a
\* root-level array: a path that resolves under that grammar yields the
\* value it selects.
C8_IndexAccessorsResolve ==
    (lastExtract.called /\ SpecFound(lastExtract.data, lastExtract.path))
        => /\ ~lastExtract.out.raised
           /\ JEq(lastExtract.out.value,
                  SpecResolved(lastExtract.data, lastExtract.path).value)

\* C9: an equals assertion that carries its expected value under the key
\* value has the same outcome as the one carrying it under expected.
C9_ValueKeyReadAsExpected ==
    \A i \in Evaluated :
        LET a == test_spec.assertions[i] IN
        (TypeOf(a) = "equals" /\ "value" \in DOMAIN a /\ "expected" \notin DOMAIN a) =>
            results[i].passed
                = RunAssertionsStep(Equals(a.path, a.value), response).result.passed

\* C10: a body assertion with matcher exists passes if and only if its path
\* resolves in the parsed response body, independently of any expected value.
C10_BodyExistsPassesIffPathResolves ==
    \A i \in Evaluated :
        LET a == test_spec.assertions[i] IN
        (TypeOf(a) = "body" /\ GetOr(a, "matcher", "equals") = "exists") =>
            (results[i].passed <=> SpecFound(Body, PathOf(a)))

\* The assertion types the specification lists.
SpecTypes ==
    {"status_code", "header", "body", "schema", "contains", "equals", "regex",
     "exists", "response_time"}

\* C11: an assertion of type response_time compares the measured round trip
\* in milliseconds with expected under its matcher: less_than passes iff
\* measured < expected, greater_than iff measured > expected, equals iff
\* measured = expected.
C11_ResponseTimeComparesMeasured ==
    \A i \in Evaluated :
        LET a == test_spec.assertions[i] IN
        TypeOf(a) = "response_time" =>
            /\ a.matcher = "less_than" =>
                  (results[i].passed <=> response_time_ms < a.expected.v)
            /\ a.matcher = "greater_than" =>
                  (results[i].passed <=> response_time_ms > a.expected.v)
            /\ a.matcher = "equals" =>
                  (results[i].passed <=> response_time_ms = a.expected.v)

\* C12: an assertion whose type is none of the known types, or is missing,
\* yields a record with passed = false whose message names the unknown type;
\* its evaluation does not raise, and the test's status is "failed".
C12_UnknownTypeFailsWithoutRaising ==
    /\ \A i \in Evaluated :
          LET a == test_spec.assertions[i] IN
          TypeOf(a) \notin SpecTypes =>
              /\ ~RunSingleAssertion(a, response).raised
              /\ ~results[i].passed
              /\ Len(results[i].message) = 2
              /\ results[i].message[1].v = K("Unknown assertion type: ")
              /\ results[i].message[2].v = K(TypeOf(a))
    /\ (pc = "done" /\ Responded
          /\ \E i \in DOMAIN test_spec.assertions :
                TypeOf(test_spec.assertions[i]) \notin SpecTypes)
       => result.status = "failed"

C12_Witness ==
    /\ pc = "done"
    /\ Responded
    /\ Len(test_spec.assertions) = 2
    /\ "type" \notin DOMAIN test_spec.assertions[1]
    /\ result.assertion_results[1].message[2].v = K("unknown")
    /\ result.assertion_results[2].passed
    /\ result.status = "failed"

\* C13: a response with a 4xx or 5xx status code is no execution failure:
\* error_message is unset, response_data is populated from the response and
\* the assertions are evaluated against it, so a spec whose only assertion is
\* status_code equal to the returned code yields status "passed".
C13_ErrorStatusIsAValidResponse ==
    (pc = "done" /\ response.status_code >= 400) =>
        /\ result.error_message.t = "null"
        /\ result.response_data.t = "dict"
        /\ result.response_data.v.status_code = response.status_code
        /\ JEq(result.response_data.v.body, ExtractResponseBody(response))
        /\ Len(result.assertion_results) = Len(test_spec.assertions)
        /\ evaluated = Len(test_spec.assertions)
        /\ test_spec.assertions = <<StatusCodeIs(response.status_code)>>
              => result.status = "passed"

C13_Witness ==
    /\ pc = "done"
    /\ response.status_code = 500
    /\ test_spec.assertions = <<StatusCodeIs(500)>>
    /\ result.status = "passed"
    /\ result.response_data.v.status_code = 500

\* Equality of two headers or params dicts.
DictEq(f, g) == DOMAIN f = DOMAIN g /\ \A k \in DOMAIN f : JEq(f[k], g[k])

SameSpec(a, b) ==
    /\ JEq(a.headers, b.headers)
    /\ JEq(a.query_params, b.query_params)
    /\ JEq(a.body, b.body)
    /\ a.assertions = b.assertions

\* C14: execute_test does not modify the TestSpec it is given: no step of
\* the call changes the spec's headers, query_params, body or assertions,
\* whatever the authentication type and the body.
C14_SpecNotModified ==
    [][(pc \in {"preparing", "token", "authenticated", "requesting", "asserting"})
          => SameSpec(test_spec, test_spec')]_vars

AcquisitionFailed(cfg, post) ==
    /\ DOMAIN cfg # {}
    /\ AuthType(cfg) = K("oauth2")
    /\ ~Truthy(Get(cfg, "token"))
    /\ \/ ~HasClientCredentials(cfg)
       \/ /\ post.called
          /\ \/ post.raised
             \/ post.status_code # 200
             \/ ~post.is_json
             \/ post.json.t # "dict"
             \/ ~Truthy(DictGet(post.json.v, K("access_token")))

\* C16: when the oauth2 token acquisition fails (the POST raises, a non-200
\* answer, an answer without access_token, missing client credentials or
\* token URL), execute_test goes on to send the test request with the headers
\* and params as they were, no Authorization header added; the failure is not
\* raised and never becomes the error_message of the test.
C16_TokenFailureIsSwallowed ==
    [][/\ pc = "token" => pc' = "authenticated"
       /\ (pc \in {"preparing", "token"} /\ pc' = "authenticated"
             /\ AcquisitionFailed(auth_config, token_response'))
          => /\ DictEq(req_headers', OrEmpty(test_spec.headers))
             /\ DictEq(req_params', OrEmpty(test_spec.query_params))
       /\ (pc' = "requesting" /\ AcquisitionFailed(auth_config, token_response'))
          => AuthorizationKey \notin DOMAIN req_headers'
       /\ (pc' = "done" /\ AcquisitionFailed(auth_config, token_response'))
          => /\ http' \in {"responded", "raised"}
             /\ result'.error_message.t # "null"
                   => (http' = "raised" /\ result'.error_message.v \in TransportErrors)
      ]_vars

C16_Witness ==
    /\ pc = "done"
    /\ token_response.called
    /\ token_response.raised
    /\ AcquisitionFailed(auth_config, token_response)
    /\ http = "responded"
    /\ result.status = "passed"
    /\ AuthorizationKey \notin DOMAIN req_headers

\* C17: api_key authentication with key_name and key_value set injects the
\* key in exactly one place: into the headers under key_name when key_name
\* is, case-insensitively, one of x-api-key, api-key, authorization,
\* x-auth-token, otherwise into the query parameters under key_name; the
\* other map is unchanged, and when key_name or key_value is missing both
\* maps are unchanged.
C17_ApiKeyInjectedInOnePlace ==
    [][(pc = "preparing" /\ pc' = "authenticated" /\ DOMAIN auth_config # {}
          /\ AuthType(auth_config) = <<"api_key">>)
       => LET h0    == OrEmpty(test_spec.headers)
              p0    == OrEmpty(test_spec.query_params)
              name  == Get(auth_config, "key_name")
              value == Get(auth_config, "key_value")
          IN  IF Truthy(name) /\ Truthy(value)
              THEN IF Lower(name.v) \in HeaderKeyNames
                   THEN /\ DictEq(req_headers', SetItem(h0, name.v, value))
                        /\ DictEq(req_params', p0)
                   ELSE /\ DictEq(req_params', SetItem(p0, name.v, value))
                        /\ DictEq(req_headers', h0)
              ELSE DictEq(req_headers', h0) /\ DictEq(req_params', p0)
      ]_vars

C17_Witness ==
    /\ pc = "authenticated"
    /\ DOMAIN auth_config # {}
    /\ AuthType(auth_config) = <<"api_key">>
    /\ Truthy(Get(auth_config, "key_value"))
    /\ Get(auth_config, "key_name").v = <<"X", "-", "API", "-", "Key">>
    /\ <<"X", "-", "API", "-", "Key">> \in DOMAIN req_headers
    /\ K("Accept") \in DOMAIN req_headers
    /\ DOMAIN req_params = {K("page")}


\* ---------------------------------------------------------- the curl claims

\* The tokens of the command last parsed.
ParsedTokens == Tokenize(Normalize(lastParse.cmd))

\* The options that read the token after them.
MethodFlags == {Short("X"), Long(K("request"))}

BodyFlags == DataFlags \cup {Short("F"), Long(K("form"))}

ArgOptions == MethodFlags \cup {Short("H"), Long(K("header"))} \cup BodyFlags

\* The positions from i on that an option before them reads as its argument.
RECURSIVE OptionArgs(_, _)
OptionArgs(tokens, i) ==
    IF i > Len(tokens) THEN {}
    ELSE IF StripQuotes(tokens[i]) \in ArgOptions /\ i < Len(tokens)
    THEN {i + 1} \cup OptionArgs(tokens, i + 2)
    ELSE OptionArgs(tokens, i + 1)

\* The positions after the first token where one of the flags stands as a flag.
FlagAt(tokens, flags) ==
    {i \in 2..Len(tokens) : i \notin OptionArgs(tokens, 2) /\ StripQuotes(tokens[i]) \in flags}

\* No token after the first is a URL token: each starts with "-" or is the
\* argument of an option.
NoUrlToken(tokens) ==
    \A i \in 2..Len(tokens) :
        i \in OptionArgs(tokens, 2) \/ StartsWithDash(StripQuotes(tokens[i]))

Blank(cmd) == \A i \in DOMAIN cmd : IsSpace(cmd[i])

ParseFailed == lastParse.raised /\ lastParse.request = <<>>

\* C18 (as stated): parse_curl_command fails with ValueError, and returns
\* nothing, when the command is empty or blank, when its first token is not
\* the literal token curl, or when no URL token follows.
C18_ParseErrors_Literal ==
    (/\ lastParse.called
     /\ \/ Blank(lastParse.cmd)
        \/ ParsedTokens = <<>>
        \/ ParsedTokens[1] # K("curl")
        \/ NoUrlToken(ParsedTokens))
        => ParseFailed

\* C18 (amended): the same, the first token being compared with curl after
\* lower-casing it: CURL and Curl are taken as curl.
C18_ParseErrors ==
    (/\ lastParse.called
     /\ \/ Blank(lastParse.cmd)
        \/ ParsedTokens = <<>>
        \/ Lower(ParsedTokens[1]) # K("curl")
        \/ NoUrlToken(ParsedTokens))
        => ParseFailed

\* A command that begins with curl, has further tokens and no URL among
\* them was refused.
C18_Witness ==
    /\ lastParse.called
    /\ ~Blank(lastParse.cmd)
    /\ ParsedTokens[1] = K("curl")
    /\ Len(ParsedTokens) > 2
    /\ NoUrlToken(ParsedTokens)
    /\ ParseFailed

\* The -X/--request flags of the command that have an argument.
ExplicitMethods == {i \in FlagAt(ParsedTokens, MethodFlags) : i < Len(ParsedTokens)}

\* C19: a command with one -X M (or --request M) and at least one body flag
\* (-d, --data, --data-raw, --data-binary, -F, --form), in whatever order,
\* parses with method M (in upper case, as every parsed method is).
C19_ExplicitMethodIsKept ==
    (/\ lastParse.called
     /\ ~lastParse.raised
     /\ Cardinality(ExplicitMethods) = 1
     /\ FlagAt(ParsedTokens, BodyFlags) # {})
        => \A i \in ExplicitMethods :
               lastParse.request.method = Upper(StripQuotes(ParsedTokens[i + 1]))

\* No token of the command is -X or --request.
NoMethodFlag ==
    \A i \in DOMAIN ParsedTokens : StripQuotes(ParsedTokens[i]) \notin MethodFlags

\* C20 (as stated): a command that has a -d, --data, --data-raw or
\* --data-binary flag and no -X/--request parses with method POST.
C20_DataFlagImpliesPost_AnyFlag ==
    (/\ lastParse.called
     /\ ~lastParse.raised
     /\ FlagAt(ParsedTokens, DataFlags) # {}
     /\ NoMethodFlag)
        => lastParse.request.method = MethodPOST

\* C20 (amended): a command that has a -d, --data, --data-raw or
\* --data-binary flag followed by a token (its data) and no -X/--request
\* parses with method POST.
C20_DataFlagImpliesPost ==
    (/\ lastParse.called
     /\ ~lastParse.raised
     /\ \E i \in FlagAt(ParsedTokens, DataFlags) : i < Len(ParsedTokens)
     /\ NoMethodFlag)
        => lastParse.request.method = MethodPOST

\* A command with a data flag, its data and a url, and no -X, was parsed as
\* a POST.
C20_Witness ==
    /\ lastParse.called
    /\ ~lastParse.raised
    /\ \E i \in FlagAt(ParsedTokens, DataFlags) : i < Len(ParsedTokens)
    /\ NoMethodFlag
    /\ lastParse.request.method = MethodPOST
    /\ lastParse.request.url = Url
    /\ lastParse.request.body = <<"a", "=", "1">>


\* The options C21 speaks of: -X, -H and -d under all their names.
PairFlagNames == MethodFlags \cup {Short("H"), Long(K("header"))} \cup DataFlags

\* The first position after curl whose token does not start with "-" and is
\* not the argument of an option; 0 when there is none.
UrlIndex(tokens) ==
    LET free == {i \in 2..Len(tokens) :
                    i \notin OptionArgs(tokens, 2) /\ ~StartsWithDash(StripQuotes(tokens[i]))}
    IN  IF free = {} THEN 0 ELSE CHOOSE i \in free : \A j \in free : i <= j

\* The tokens after curl without the one at u.
Without(tokens, u) == SubSeq(tokens, 2, u - 1) \o SubSeq(tokens, u + 1, Len(tokens))

\* The command is curl, one url and flag-argument pairs of -X, -H, -d, the
\* url standing before, between or after the pairs.
MadeOfPairs(tokens) ==
    /\ Len(tokens) >= 2
    /\ tokens[1] = K("curl")
    /\ UrlIndex(tokens) # 0
    /\ UrlIndex(tokens) % 2 = 0
    /\ Len(tokens) % 2 = 0
    /\ \A j \in 1..(Len(tokens) - 2) :
           j % 2 = 1 => StripQuotes(Without(tokens, UrlIndex(tokens))[j]) \in PairFlagNames

\* The same command with its url after the first k pairs.
UrlMovedTo(tokens, k) ==
    LET u == UrlIndex(tokens)
        rest == Without(tokens, u)
    IN  Command(<<tokens[1]>> \o SubSeq(rest, 1, 2 * k) \o <<tokens[u]>>
                \o SubSeq(rest, 2 * k + 1, Len(rest)))

SameRequest(a, b) ==
    /\ a.method = b.method
    /\ a.url = b.url
    /\ a.body = b.body
    /\ DOMAIN a.headers = DOMAIN b.headers
    /\ \A name \in DOMAIN a.headers : a.headers[name] = b.headers[name]

RequestTypes == {"json", "form", "multipart", "none"}

\* The names of the content-type headers of a headers dict, whatever their
\* capitalisation.
ContentTypeNames(hdrs) == {name \in DOMAIN hdrs : Lower(name) = ContentTypeKey}

\* C22: request_type is json, form, multipart or none; a content-type header
\* of the command, however its name is capitalised, decides it (json for
\* application/json); the body decides only when there is no such header:
\* json if it parses as JSON, form if it does not, none without a body.
C22_RequestTypeFromContentType ==
    (lastParse.called /\ ~lastParse.raised) =>
        LET request == lastParse.request IN
        /\ request.request_type \in RequestTypes
        /\ \A name \in ContentTypeNames(request.headers) :
               Contains(<<"application", "/", "json">>, Lower(request.headers[name]))
                   => request.request_type = "json"
        /\ ContentTypeNames(request.headers) = {} =>
               request.request_type =
                   IF request.body = <<>> THEN "none"
                   ELSE IF ParsesAsJson(request.body) THEN "json" ELSE "form"

\* The text before and after the payload of a command curl -d <q>payload<q> url.
PayloadPrefix == Command(<<K("curl"), Short("d")>>) \o <<Space>>

PayloadSuffix == <<Space>> \o Url

\* The command is curl -d, a payload between a pair of quotes q that has no
\* q inside, and a url.
HasQuotedPayload(cmd) ==
    /\ Len(cmd) >= Len(PayloadPrefix) + 2 + Len(PayloadSuffix)
    /\ SubSeq(cmd, 1, Len(PayloadPrefix)) = PayloadPrefix
    /\ SubSeq(cmd, Len(cmd) - Len(PayloadSuffix) + 1, Len(cmd)) = PayloadSuffix
    /\ cmd[Len(PayloadPrefix) + 1] \in QuoteChars
    /\ cmd[Len(cmd) - Len(PayloadSuffix)] = cmd[Len(PayloadPrefix) + 1]
    /\ \A i \in (Len(PayloadPrefix) + 2)..(Len(cmd) - Len(PayloadSuffix) - 1) :
           cmd[i] # cmd[Len(PayloadPrefix) + 1]

\* The characters between the quote pair.
QuotedPayload(cmd) == SubSeq(cmd, Len(PayloadPrefix) + 2, Len(cmd) - Len(PayloadSuffix) - 1)

\* C23: the body parsed from a quoted -d payload is the text between the
\* quote pair, quotes of the other kind, newlines and runs of spaces
\* included, changed only by the replacement of backslash-newline.
C23_QuotedPayloadVerbatim ==
    (lastParse.called /\ HasQuotedPayload(lastParse.cmd)) =>
        /\ ~lastParse.raised
        /\ lastParse.request.body = ReplaceContinuations(QuotedPayload(lastParse.cmd), 1)

\* The number of maximal runs of the command from i on that hold no unquoted
\* whitespace; quote is the open quote ("" for none), open tells whether a
\* run has begun.
RECURSIVE UnquotedRuns(_, _, _, _)
UnquotedRuns(command, i, quote, open) ==
    IF i > Len(command) THEN (IF open THEN 1 ELSE 0)
    ELSE IF quote = "" /\ IsSpace(command[i])
    THEN (IF open THEN 1 ELSE 0) + UnquotedRuns(command, i + 1, "", FALSE)
    ELSE IF quote = "" /\ command[i] \in QuoteChars
    THEN UnquotedRuns(command, i + 1, command[i], TRUE)
    ELSE IF quote # "" /\ command[i] = quote
    THEN UnquotedRuns(command, i + 1, "", TRUE)
    ELSE UnquotedRuns(command, i + 1, quote, TRUE)

\* C25: the tokenizer splits only at unquoted whitespace: there are as many
\* tokens as maximal runs without unquoted whitespace, a closing quote
\* followed by another character not ending the token.
C25_TokensAreUnquotedRuns ==
    lastParse.called =>
        Len(ParsedTokens) = UnquotedRuns(Normalize(lastParse.cmd), 1, "", FALSE)


\* The HTTP verbs.
HttpVerbs == {<<"GET">>, <<"POST">>, <<"PUT">>, <<"DELETE">>, <<"PATCH">>, <<"HEAD">>,
              <<"OPTIONS">>}

\* The spec that curl_to_test_spec returned.
Converted == lastConvert.called /\ ~lastConvert.raised

\* C24: every spec that curl_to_test_spec produces has a method that is an
\* HTTP verb, and each key of its path_variables names a {key} placeholder
\* that occurs in its path.
C24_ConvertedSpecInvariant ==
    Converted =>
        /\ lastConvert.spec.method \in HttpVerbs
        /\ \A name \in DOMAIN lastConvert.spec.path_variables.v :
               Contains(<<"{">> \o name \o <<"}">>, lastConvert.spec.path)

\* The assertion types the dispatcher of _run_single_assertion evaluates.
DispatchedTypes == {"status_code", "header", "body", "schema", "contains", "equals", "regex"}

\* The response carries the content type the request named, if it named one.
ContentTypeMatches ==
    LET asked == RequestContentType([k \in DOMAIN lastConvert.spec.headers.v |->
                                        lastConvert.spec.headers.v[k].v])
        got   == HeaderGet(response.headers, ContentTypeKey)
    IN  asked = <<>> \/ (got.t = "str" /\ Contains(asked, got.v))

\* C28: a spec built from a curl command with no custom assertions, executed
\* against a 200 response with a matching content type received in under
\* 5000 ms, has every seeded assertion evaluated by the dispatcher and
\* yields status 'passed'.
C28_SeededAssertionsPass ==
    (/\ Converted
     /\ lastConvert.custom = <<>>
     /\ pc = "done"
     /\ http = "responded"
     /\ response.status_code = 200
     /\ response_time_ms < 5000
     /\ ContentTypeMatches) =>
        /\ \A i \in DOMAIN result.assertion_results :
               result.assertion_results[i].type \in DispatchedTypes
        /\ result.status = "passed"

\* The headers of the spec as curl_to_test_spec returned it.
GivenHeaders == lastConvert.spec.headers.v

\* The spec sets a content-type header, under any capitalisation of the name.
SetsContentType == \E name \in DOMAIN GivenHeaders : Lower(name) = ContentTypeKey

\* _make_request has built the headers of the request of the converted spec.
RequestBuilt == Converted /\ pc \in {"requesting", "asserting", "done"}

\* C26: the request carries the headers of the spec, and in addition
\* content-type: application/json exactly when the spec sets no content-type
\* header under any capitalisation and its body parses as JSON.
C26_ContentTypeOnlyWhenUnset ==
    RequestBuilt =>
        IF ~SetsContentType /\ ParsesAsJson(lastConvert.spec.body.v)
        THEN req_headers = SetItem(GivenHeaders, ContentTypeKey,
                                   JStr(<<"application", "/", "json">>))
        ELSE req_headers = GivenHeaders

\* The config holds a value under the key (a non-empty one).
Holds(cfg, key) == Truthy(Get(cfg, key))

\* The config holds no token, and holds client_id, client_secret and
\* token_url.
MustFetchToken ==
    /\ ~Holds(auth_config, "token")
    /\ Holds(auth_config, "client_id")
    /\ Holds(auth_config, "client_secret")
    /\ Holds(auth_config, "token_url")

\* The authentication step of the call in progress is over.
AuthStepOver == pc \in {"authenticated", "requesting", "asserting", "done"}

\* The token POSTs made by the executor, given the calls made on it: one in
\* every call but the one that has not yet reached its authentication step,
\* none when the config needs no token.
TokenPostsDue ==
    IF ~MustFetchToken THEN 0
    ELSE IF pc = "preparing" THEN calls - 1
    ELSE calls

\* The test request of the call in progress has been made.
RequestMade == pc \in {"asserting", "done"} /\ http # "pending"

\* C27 (state part): with an oauth2 config, every execute_test call makes
\* exactly one token POST when the config holds no token but client_id,
\* client_secret and token_url, and none otherwise; the POST is made before
\* the test request; a token held by the config is sent as Bearer.
C27_TokenPostPerCall ==
    AuthType(auth_config) = K("oauth2") =>
        /\ token_posts = TokenPostsDue
        /\ pc = "token" => http = "pending"
        /\ (RequestMade /\ MustFetchToken) => token_posts = calls
        /\ (AuthStepOver /\ Holds(auth_config, "token")) =>
               /\ AuthorizationKey \in DOMAIN req_headers
               /\ req_headers[AuthorizationKey] = BearerValue(Get(auth_config, "token"))

\* C27: the state part, and no step of a call changes the config: the
\* acquired token is not written back.
C27_OAuth2TokenRequests ==
    /\ []C27_TokenPostPerCall
    /\ [][auth_config' = auth_config]_vars

\* A second call on an executor whose config holds no token has made its own
\* token POST, got a token, and sent the test request.
C27_Witness ==
    /\ MustFetchToken
    /\ calls = 2
    /\ token_posts = 2
    /\ RequestMade
    /\ AuthorizationKey \in DOMAIN req_headers
    /\ "token" \notin DOMAIN auth_config

\* C29: once a test run has status 'cancelled', no step changes its status
\* or its counters: the row stays as cancel_test_run committed it.
C29_CancelledRunIsFrozen ==
    [][\A test_run_id \in DOMAIN test_runs :
           test_runs[test_run_id].status = "cancelled" =>
               test_runs'[test_run_id] = test_runs[test_run_id]]_vars

\* C30: a test run with status 'completed' has passed_tests + failed_tests
\* equal to total_tests.
C30_CompletedCountsAddUp ==
    \A test_run_id \in DOMAIN test_runs :
        test_runs[test_run_id].status = "completed" =>
            test_runs[test_run_id].passed_tests + test_runs[test_run_id].failed_tests
                = test_runs[test_run_id].total_tests
====
